---- MODULE Spec2Model ----
(***************************************************************************)
(* Model of cepharum/promise-essentials (class PromiseUtil).                *)
(*                                                                         *)
(* JavaScript values are string tokens: "true", "false", "null",           *)
(* "undefined", "-1", the element values of ElemValues, the promise        *)
(* handles of Handles, the keys of Digits/ObjectKeys/MapKeys, the failure  *)
(* reasons of ItemReasons/CbErrors, and the instance names "items" (the    *)
(* source container), "collector" and "mappedValues".  Positions into the  *)
(* list of keys are integers counted from 0 as in the code; TLA+ sequences *)
(* are indexed from 1, hence the +1 in every access.                       *)
(***************************************************************************)
EXTENDS Integers, Sequences, FiniteSets, TLC

\* Largest number of elements of the source container of a sequential operation.
MaxLen == 3

\* Largest number of elements of the source container of multiMap(), whose
\* units of work all run at the same time.
MaxParallel == 2

\* Largest number of chunks the stream given to process() delivers.
MaxChunks == 4

\* Largest number of elements of a container whose call is checked for termination.
MaxLive == 2

\* Largest number of arguments a promisified function is called with, and
\* largest number of invocations of the callback promisify() passes on.
MaxArgs == 2
MaxCallbacks == 2

----------------------------------------------------------------------------
(* Tokens *)

Digits      == << "0", "1", "2", "3", "4", "5" >>
ObjectKeys  == << "key1", "key2", "key3", "key4", "key5", "key6" >>
MapKeys     == << "first", "second", "third", "fourth", "fifth", "sixth" >>
ElemValues  == << "a", "b", "c", "d", "e", "f" >>
Handles     == << "Pa", "Pb", "Pc", "Pd", "Pe", "Pf" >>
ItemReasons == << "Ra", "Rb", "Rc", "Rd", "Re", "Rf" >>
CbErrors    == << "X0", "X1", "X2", "X3", "X4", "X5" >>
Chunks      == << "u1", "u2", "u3", "u4", "u5", "u6" >>

Hole == "<empty>"

Shapes == { "array", "arraylike", "object", "map" }

\* values that are no container: a number, a boolean, null, undefined
NoContainers == { "number", "boolean", "null", "undefined" }

\* throw new TypeError( "non-iterable collection rejected" )
NonIterable == "TypeError: non-iterable collection rejected"

\* the TypeError of the engine on reading items.length of null or undefined
LengthOfNullish ==
    [ null      |-> "TypeError: Cannot read properties of null (reading 'length')",
      undefined |-> "TypeError: Cannot read properties of undefined (reading 'length')" ]

TypeErrors == { NonIterable, LengthOfNullish["null"], LengthOfNullish["undefined"] }


\* Boolean( value )
Boolean(value) == value \notin { "false", "null", "undefined", "", "0" }

\* !value
Not(value) == IF Boolean(value) THEN "false" ELSE "true"

\* value != null
NotNullish(value) == value \notin { "null", "undefined" }

----------------------------------------------------------------------------
VARIABLES
    items,          \* the source container: [shape, entries: Seq([key, item])]
    promises,       \* the promises among the elements: handle -> [state, fate, value]
    call,           \* the API call: [op, stopOnReturn, asArrayOption, asArray, getLast]
    stopOnReturn,   \* each(): the option as destructured by each()
    unit,           \* per position: the promise `promise` a step creates, [st, val]
    tick,           \* steps scheduled by process.nextTick: Seq([current, writeIndex])
    result,         \* the collector: [family, slots, entries]
    calls,          \* log of callback invocations: Seq([pos, key, value, collection])
    opStatus,       \* state of the promise returned to the caller
    opValue,        \* its resolution value or rejection reason
    inner,          \* every(), find(): the promise of each() / indexOf() the returned
                    \* promise is chained onto, [status, value]
    stream,         \* process(): the stream, [chunks, paused, ended, errored]
    fn,             \* process(): the callback, as passed and then as defaulted
    counter,        \* process(): let counter
    target,         \* process(): const target, an object [family, slots, entries]
    finished,       \* process(): let finished
    failure,        \* process(): let failure
    inflight,       \* process(): ordinals whose callback returned a promise still pending
    reactions,      \* process(): the continuations queued for settled promises of the
                    \* callback and not run yet: set of [ordinal, ok]
    events          \* process(): log of the events handled, see logEvent

streamVars == << stream, fn, counter, target, finished, failure, inflight, reactions, events >>

vars == << items, promises, call, stopOnReturn, unit, tick, result, calls, opStatus, opValue,
           inner, stream, fn, counter, target, finished, failure, inflight, reactions, events >>

----------------------------------------------------------------------------
(* The source container *)

KeyNames(shape) ==
    CASE shape = "object" -> ObjectKeys
      [] shape = "map"    -> MapKeys
      [] OTHER            -> Digits

\* kinds of elements a container is built from
ItemKinds == { "plain", "resolving", "rejecting" }

\* an element whose value is undefined
UndefinedKind == "undefined"

MakeEntry(shape, kind, i) ==
    [ key  |-> KeyNames(shape)[i],
      item |-> CASE kind = "plain"       -> ElemValues[i]
                 [] kind = UndefinedKind -> "undefined"
                 [] OTHER                -> Handles[i] ]

MakeItems(shape, kinds) ==
    [ shape |-> shape, entries |-> [ i \in 1..Len(kinds) |-> MakeEntry(shape, kinds[i], i) ] ]

MakePromises(kinds) ==
    [ h \in { Handles[i] : i \in { j \in 1..Len(kinds) : kinds[j] \in { "resolving", "rejecting" } } } |->
        LET i == CHOOSE j \in 1..Len(kinds) : Handles[j] = h
        IN  [ state |-> "pending",
              fate  |-> IF kinds[i] = "resolving" THEN "fulfilled" ELSE "rejected",
              value |-> IF kinds[i] = "resolving" THEN ElemValues[i] ELSE ItemReasons[i] ] ]

\* the instanceof test never recognises a promise
IsPromiseNever(item) == FALSE

\* item instanceof Promise
IsPromise(item) == item \in DOMAIN promises


Size == Len(items.entries)

\* Map.prototype.get( key ) / collection[key]; undefined for a key the container lacks
Get(key) ==
    IF \E i \in 1..Size : items.entries[i].key = key
    THEN items.entries[CHOOSE i \in 1..Size : items.entries[i].key = key].item
    ELSE "undefined"

----------------------------------------------------------------------------
(* Collectors *)

NoCollector == [ family |-> "none", slots |-> << >>, entries |-> << >> ]

\* new Array( length ): `length` empty slots
NewArray(length) == [ family |-> "array", slots |-> [ i \in 1..length |-> Hole ], entries |-> << >> ]

\* new Map()
NewMap == [ family |-> "map", slots |-> << >>, entries |-> << >> ]

\* {}
NewObject == [ family |-> "object", slots |-> << >>, entries |-> << >> ]

\* array[index] = value, growing the array when index is beyond its length
ArraySet(c, index, value) ==
    LET n == IF index + 1 > Len(c.slots) THEN index + 1 ELSE Len(c.slots)
    IN  [ c EXCEPT !.slots = [ i \in 1..n |-> IF i = index + 1 THEN value
                                              ELSE IF i <= Len(c.slots) THEN c.slots[i]
                                              ELSE Hole ] ]

\* map.set( key, value ) / object[key] = value: a new key is appended in insertion order
KeyedSet(c, key, value) ==
    IF \E i \in 1..Len(c.entries) : c.entries[i].key = key
    THEN [ c EXCEPT !.entries = [ i \in 1..Len(c.entries) |->
                IF c.entries[i].key = key THEN [ key |-> key, val |-> value ] ELSE c.entries[i] ] ]
    ELSE [ c EXCEPT !.entries = Append(c.entries, [ key |-> key, val |-> value ]) ]

\* array.splice( start, deleteCount ) for start >= 0
Splice(c, start, deleteCount) ==
    LET len  == Len(c.slots)
        from == IF start > len THEN len ELSE start
        cnt  == IF deleteCount < 0 THEN 0
                ELSE IF deleteCount > len - from THEN len - from ELSE deleteCount
    IN  [ c EXCEPT !.slots = [ i \in 1..(len - cnt) |->
                IF i <= from THEN c.slots[i] ELSE c.slots[i + cnt] ] ]

----------------------------------------------------------------------------
(* prepareIteration *)

\* prepareIteration() is left by an exception
Thrown(error) ==
    [ hasIndexes |-> FALSE, indexes |-> << >>, length |-> 0, useGet |-> FALSE,
      thrown |-> error, collector |-> NoCollector ]

\* asArray is not honoured: the collector is always of the source's family
prepareIterationLikeSource(createCollector, asArray) ==
    CASE items.shape = "map" ->
            [ hasIndexes |-> TRUE,
              indexes    |-> [ i \in 1..Size |-> items.entries[i].key ],
              length     |-> Size,
              useGet     |-> TRUE,
              thrown     |-> "none",
              collector  |-> IF ~createCollector THEN NoCollector ELSE NewMap ]
      [] items.shape \in { "array", "arraylike" } ->
            [ hasIndexes |-> FALSE,
              indexes    |-> << >>,
              length     |-> Size,
              useGet     |-> FALSE,
              thrown     |-> "none",
              collector  |-> IF ~createCollector THEN NoCollector ELSE NewArray(Size) ]
      [] items.shape = "object" ->
            [ hasIndexes |-> TRUE,
              indexes    |-> [ i \in 1..Size |-> items.entries[i].key ],
              length     |-> Size,
              useGet     |-> FALSE,
              thrown     |-> "none",
              collector  |-> IF ~createCollector THEN NoCollector ELSE NewObject ]
      [] items.shape \in { "null", "undefined" } ->
            Thrown(LengthOfNullish[items.shape])
      [] OTHER ->
            Thrown(NonIterable)

\* whatever is not null or undefined is walked like an object: Object.keys() of a
\* number or a boolean is empty
prepareIterationOfAnything(createCollector, asArray) ==
    CASE items.shape = "map" ->
            [ hasIndexes |-> TRUE,
              indexes    |-> [ i \in 1..Size |-> items.entries[i].key ],
              length     |-> Size,
              useGet     |-> TRUE,
              thrown     |-> "none",
              collector  |-> IF ~createCollector THEN NoCollector
                             ELSE IF asArray THEN NewArray(Size) ELSE NewMap ]
      [] items.shape \in { "array", "arraylike" } ->
            [ hasIndexes |-> FALSE,
              indexes    |-> << >>,
              length     |-> Size,
              useGet     |-> FALSE,
              thrown     |-> "none",
              collector  |-> IF ~createCollector THEN NoCollector ELSE NewArray(Size) ]
      [] items.shape = "object" ->
            [ hasIndexes |-> TRUE,
              indexes    |-> [ i \in 1..Size |-> items.entries[i].key ],
              length     |-> Size,
              useGet     |-> FALSE,
              thrown     |-> "none",
              collector  |-> IF ~createCollector THEN NoCollector
                             ELSE IF asArray THEN NewArray(Size) ELSE NewObject ]
      [] items.shape \in { "null", "undefined" } ->
            Thrown(LengthOfNullish[items.shape])
      [] OTHER ->
            [ hasIndexes |-> TRUE,
              indexes    |-> << >>,
              length     |-> 0,
              useGet     |-> FALSE,
              thrown     |-> "none",
              collector  |-> IF ~createCollector THEN NoCollector
                             ELSE IF asArray THEN NewArray(0) ELSE NewObject ]

prepareIteration(createCollector, asArray) ==
    CASE items.shape = "map" ->
            [ hasIndexes |-> TRUE,
              indexes    |-> [ i \in 1..Size |-> items.entries[i].key ],
              length     |-> Size,
              useGet     |-> TRUE,
              thrown     |-> "none",
              collector  |-> IF ~createCollector THEN NoCollector
                             ELSE IF asArray THEN NewArray(Size) ELSE NewMap ]
      [] items.shape \in { "array", "arraylike" } ->
            [ hasIndexes |-> FALSE,
              indexes    |-> << >>,
              length     |-> Size,
              useGet     |-> FALSE,
              thrown     |-> "none",
              collector  |-> IF ~createCollector THEN NoCollector ELSE NewArray(Size) ]
      [] items.shape = "object" ->
            [ hasIndexes |-> TRUE,
              indexes    |-> [ i \in 1..Size |-> items.entries[i].key ],
              length     |-> Size,
              useGet     |-> FALSE,
              thrown     |-> "none",
              collector  |-> IF ~createCollector THEN NoCollector
                             ELSE IF asArray THEN NewArray(Size) ELSE NewObject ]
      [] items.shape \in { "null", "undefined" } ->
            Thrown(LengthOfNullish[items.shape])
      [] OTHER ->
            Thrown(NonIterable)

\* the plan of the running call
Plan == prepareIteration(call.op \in { "filter", "map", "multiMap" }, call.asArray)

\* the position is taken for the key whatever the container
KeyAtPosition(current) == Digits[current + 1]

\* const key = keys ? keys[current] : current
KeyAt(current) == IF Plan.hasIndexes THEN Plan.indexes[current + 1] ELSE Digits[current + 1]

\* const item = useGet ? collection.get( key ) : collection[key]
ItemAt(current) == Get(KeyAt(current))

----------------------------------------------------------------------------
(* The callback *)

\* the values the callback of the running call returns or promises: each(), some()
\* and every() tell true, false and null apart, the other operations use the
\* result as a truth value or copy it
CbResults ==
    IF call.op \in { "each", "some", "every" } THEN { "true", "false", "null" }
    ELSE { "true", "false" }

\* what a callback invocation does: return a value, throw, or return a promise
CbBehaviours ==
    [ mode : { "return" }, r : CbResults ] \cup [ mode : { "throw", "promise" }, r : { "" } ]

----------------------------------------------------------------------------
(* Settling the promise returned to the caller *)

\* find(): the continuation chained onto indexOf()
findThen(index) ==
    IF items.shape = "array"
    THEN IF index # "-1" THEN Get(index) ELSE "undefined"
    ELSE IF index = "undefined" THEN "undefined" ELSE Get(index)

\* a promise resolved with a promise is fulfilled with that promise
AdoptNever(value) == value

\* a promise resolved with a promise adopts its state
Adopt(value) == IF IsPromise(value) THEN promises[value].value ELSE value

\* every(): the continuation chained onto each()
everyThen(value) == Not(value)

\* every() and find() return the promise .then() derives from the promise of
\* each() and indexOf(); the other methods return the promise they create
Chained == call.op \in { "every", "find" }

\* the promise of each() / indexOf() before it is settled; chain: what has
\* become of the continuation chained onto it ("none": not run, "adopting": it
\* has returned a promise the returned promise follows, "done")
NoInner == [ status |-> "pending", value |-> "", chain |-> "none" ]

\* the value the continuation of the public method returns
Delivered(value) ==
    CASE call.op = "every" -> everyThen(value)
      [] call.op = "find"  -> findThen(value)
      [] OTHER             -> value

\* resolve( value ) of the promise the walk has created: the promise returned to
\* the caller of every() and find() is left for the continuation to settle
resolve(value) ==
    IF Chained
    THEN /\ inner' = IF inner.status = "pending"
                     THEN [ inner EXCEPT !.status = "resolved", !.value = value ]
                     ELSE inner
         /\ opStatus' = IF opStatus = "idle" THEN "pending" ELSE opStatus
         /\ UNCHANGED opValue
    ELSE IF opStatus \in { "idle", "pending" }
    THEN opStatus' = "resolved" /\ opValue' = value /\ UNCHANGED inner
    ELSE UNCHANGED << opStatus, opValue, inner >>

\* reject( reason ) of the promise the walk has created
reject(reason) ==
    IF Chained
    THEN /\ inner' = IF inner.status = "pending"
                     THEN [ inner EXCEPT !.status = "rejected", !.value = reason ]
                     ELSE inner
         /\ opStatus' = IF opStatus = "idle" THEN "pending" ELSE opStatus
         /\ UNCHANGED opValue
    ELSE IF opStatus \in { "idle", "pending" }
    THEN opStatus' = "rejected" /\ opValue' = reason /\ UNCHANGED inner
    ELSE UNCHANGED << opStatus, opValue, inner >>

\* the job of .then( result => !result ) / .then( index => ... ): the promise of
\* each() / indexOf() has settled; a rejection is passed on, a promise the
\* continuation returns is yet to be adopted
chainedThen ==
    LET value == Delivered(inner.value)
    IN  /\ CASE inner.status = "rejected" ->
                    /\ opStatus' = "rejected"
                    /\ opValue' = inner.value
                    /\ inner' = [ inner EXCEPT !.chain = "done" ]
             [] IsPromise(value) ->
                    /\ inner' = [ inner EXCEPT !.chain = "adopting" ]
                    /\ UNCHANGED << opStatus, opValue >>
             [] OTHER ->
                    /\ opStatus' = "resolved"
                    /\ opValue' = value
                    /\ inner' = [ inner EXCEPT !.chain = "done" ]
        /\ UNCHANGED << streamVars, items, promises, call, stopOnReturn, unit, tick, result, calls >>

ChainedThen ==
    /\ Chained
    /\ inner.status \in { "resolved", "rejected" }
    /\ inner.chain = "none"
    /\ chainedThen

\* the job that settles the returned promise like the promise the continuation
\* has returned
chainedAdopts ==
    LET followed == Delivered(inner.value)
    IN  /\ opStatus' = IF promises[followed].state = "rejected" THEN "rejected" ELSE "resolved"
        /\ opValue' = Adopt(followed)
        /\ inner' = [ inner EXCEPT !.chain = "done" ]
        /\ UNCHANGED << streamVars, items, promises, call, stopOnReturn, unit, tick, result, calls >>

ChainedAdopts ==
    /\ Chained
    /\ inner.chain = "adopting"
    /\ promises[Delivered(inner.value)].state # "pending"
    /\ chainedAdopts

\* the call is left by an exception: no promise is returned
throw(error) ==
    /\ opStatus' = "thrown"
    /\ opValue' = error
    /\ UNCHANGED inner

keepPending ==
    /\ opStatus' = IF opStatus = "idle" THEN "pending" ELSE opStatus
    /\ UNCHANGED << opValue, inner >>

----------------------------------------------------------------------------
(* The unit of work of one element *)

\* fn( value, key, collection )
Invocation(current, value) ==
    [ pos |-> current, key |-> KeyAt(current), value |-> value, collection |-> "items" ]

\* st, val: the state and value of the promise `promise` of the step;
\* writeIndex: the writeIndex the step was called with;
\* outstanding: the callback has returned a promise which has not settled yet
NoUnit == [ st |-> "none", val |-> "", writeIndex |-> 0, outstanding |-> FALSE ]

\* the result of fn is dropped, so a promise it returns is not waited for
OutcomeNotAwaited(u, current, b) ==
    CASE b.mode = "return"  -> [ u EXCEPT !.st = "fulfilled", !.val = "undefined" ]
      [] b.mode = "throw"   -> [ u EXCEPT !.st = "rejected", !.val = CbErrors[current + 1] ]
      [] b.mode = "promise" -> [ u EXCEPT !.st = "fulfilled", !.val = "undefined", !.outstanding = TRUE ]

\* new Promise( done => done( fn( ... ) ) ), or what item.then( i => fn( ... ) ) becomes
Outcome(u, current, b) ==
    CASE b.mode = "return"  -> [ u EXCEPT !.st = "fulfilled", !.val = b.r ]
      [] b.mode = "throw"   -> [ u EXCEPT !.st = "rejected", !.val = CbErrors[current + 1] ]
      [] b.mode = "promise" -> [ u EXCEPT !.st = "awaitCb", !.outstanding = TRUE ]

\* the promise a step creates for the element at `current`
launchUnit(current, writeIndex, b) ==
    IF IsPromise(ItemAt(current))
    THEN [ NoUnit EXCEPT !.st = "awaitItem", !.writeIndex = writeIndex ]
    ELSE Outcome([ NoUnit EXCEPT !.writeIndex = writeIndex ], current, b)

\* the callback invocations that creating this promise makes at once
launchCalls(log, current) ==
    IF IsPromise(ItemAt(current))
    THEN log
    ELSE Append(log, Invocation(current, ItemAt(current)))

launch(current, writeIndex, b) ==
    /\ unit' = [ unit EXCEPT ![current + 1] = launchUnit(current, writeIndex, b) ]
    /\ calls' = launchCalls(calls, current)

\* the step handed to process.nextTick() is lost
nextTickLost(current, writeIndex) == UNCHANGED tick

\* process.nextTick( step, ..., current, ..., writeIndex )
nextTick(current, writeIndex) ==
    tick' = Append(tick, [ current |-> current, writeIndex |-> writeIndex ])

----------------------------------------------------------------------------
(* each, some, every *)

eachStep(sor, current, b) ==
    IF current < Plan.length
    THEN /\ launch(current, 0, b)
         /\ keepPending
    ELSE /\ resolve(IF sor = "true" THEN "false" ELSE "items")
         /\ UNCHANGED << unit, calls >>

each(sor) ==
    /\ opStatus = "idle"
    /\ stopOnReturn' = sor
    /\ IF Plan.thrown # "none"
       THEN throw(Plan.thrown) /\ UNCHANGED << unit, calls >>
       ELSE \E b \in CbBehaviours : eachStep(sor, 0, b)
    /\ UNCHANGED << streamVars, items, promises, call, tick, result >>

Each == call.op = "each" /\ each(call.stopOnReturn)

\* some() forgets the stopOnReturn option
someWithoutOption == each("null")

some == each("true")

Some == call.op = "some" /\ some

every == each("true")

Every == call.op = "every" /\ every

EachFamily == { "each", "some", "every" }

\* the continuation calls step() for the next element itself
eachThenSteppingAtOnce(current) ==
    LET value == unit[current + 1].val
    IN  /\ IF stopOnReturn # "null" /\ NotNullish(value)
              /\ Boolean(value) = (stopOnReturn = "true")
           THEN /\ unit' = [ unit EXCEPT ![current + 1].st = "done" ]
                /\ resolve("true")
                /\ UNCHANGED calls
           ELSE IF current + 1 < Plan.length
           THEN /\ \E b \in CbBehaviours :
                      unit' = [ unit EXCEPT ![current + 1].st = "done",
                                            ![current + 2] = launchUnit(current + 1, 0, b) ]
                /\ calls' = launchCalls(calls, current + 1)
                /\ UNCHANGED << opStatus, opValue, inner >>
           ELSE /\ unit' = [ unit EXCEPT ![current + 1].st = "done" ]
                /\ resolve(IF stopOnReturn = "true" THEN "false" ELSE "items")
                /\ UNCHANGED calls
        /\ UNCHANGED << streamVars, items, promises, call, stopOnReturn, result, tick >>

\* the continuation of `promise` in each()'s step
eachThen(current) ==
    LET value == unit[current + 1].val
    IN  /\ unit' = [ unit EXCEPT ![current + 1].st = "done" ]
        /\ IF stopOnReturn # "null" /\ NotNullish(value)
              /\ Boolean(value) = (stopOnReturn = "true")
           THEN resolve("true") /\ UNCHANGED tick
           ELSE nextTick(current + 1, 0) /\ UNCHANGED << opStatus, opValue, inner >>
        /\ UNCHANGED << streamVars, items, promises, call, stopOnReturn, result, calls >>

EachThen ==
    \E p \in 0..(Size - 1) :
        /\ call.op \in EachFamily
        /\ unit[p + 1].st = "fulfilled"
        /\ eachThen(p)

\* process.nextTick( step, ... ) fires
EachTick ==
    /\ call.op \in EachFamily
    /\ tick # << >>
    /\ tick' = Tail(tick)
    /\ \E b \in CbBehaviours : eachStep(stopOnReturn, Head(tick).current, b)
    /\ UNCHANGED << streamVars, items, promises, call, stopOnReturn, result >>

----------------------------------------------------------------------------
(* filter *)

filterStep(collector, current, writeIndex, b) ==
    IF current < Plan.length
    THEN /\ launch(current, writeIndex, b)
         /\ keepPending
         /\ result' = collector
    ELSE /\ result' = IF collector.family = "array"
                      THEN Splice(collector, writeIndex, Plan.length - writeIndex)
                      ELSE collector
         /\ resolve("collector")
         /\ UNCHANGED << unit, calls >>

filter ==
    /\ opStatus = "idle"
    /\ IF Plan.thrown # "none"
       THEN throw(Plan.thrown) /\ UNCHANGED << unit, calls, result >>
       ELSE \E b \in CbBehaviours : filterStep(Plan.collector, 0, 0, b)
    /\ UNCHANGED << streamVars, items, promises, call, stopOnReturn, tick >>

Filter == call.op = "filter" /\ filter

\* a kept item is written at its source position instead of the write index
filterThenAtSourcePosition(current) ==
    LET keep       == unit[current + 1].val
        key        == KeyAt(current)
        item       == ItemAt(current)
        writeIndex == unit[current + 1].writeIndex
    IN  /\ unit' = [ unit EXCEPT ![current + 1].st = "done" ]
        /\ IF Boolean(keep)
           THEN IF result.family = "array"
                THEN result' = ArraySet(result, current, item) /\ nextTick(current + 1, writeIndex + 1)
                ELSE result' = KeyedSet(result, key, item) /\ nextTick(current + 1, writeIndex)
           ELSE UNCHANGED result /\ nextTick(current + 1, writeIndex)
        /\ UNCHANGED << streamVars, items, promises, call, stopOnReturn, calls, opStatus, opValue, inner >>

\* the resolution of a promise element is stored in place of the element itself
filterThenKeepsResolution(current) ==
    LET keep       == unit[current + 1].val
        key        == KeyAt(current)
        item       == Adopt(ItemAt(current))
        writeIndex == unit[current + 1].writeIndex
    IN  /\ unit' = [ unit EXCEPT ![current + 1].st = "done" ]
        /\ IF Boolean(keep)
           THEN IF result.family = "map"
                THEN result' = KeyedSet(result, key, item) /\ nextTick(current + 1, writeIndex)
                ELSE IF result.family = "array"
                THEN result' = ArraySet(result, writeIndex, item) /\ nextTick(current + 1, writeIndex + 1)
                ELSE result' = KeyedSet(result, key, item) /\ nextTick(current + 1, writeIndex)
           ELSE UNCHANGED result /\ nextTick(current + 1, writeIndex)
        /\ UNCHANGED << streamVars, items, promises, call, stopOnReturn, calls, opStatus, opValue, inner >>

\* the source is filtered in place: an element that is not kept is deleted from it
filterThenInPlace(current) ==
    LET keep       == unit[current + 1].val
        writeIndex == unit[current + 1].writeIndex
    IN  /\ unit' = [ unit EXCEPT ![current + 1].st = "done" ]
        /\ items' = IF Boolean(keep) THEN items
                    ELSE [ items EXCEPT !.entries[current + 1].item = Hole ]
        /\ nextTick(current + 1, writeIndex)
        /\ UNCHANGED << streamVars, promises, call, stopOnReturn, calls, opStatus, opValue, inner, result >>

\* the continuation of `promise` in filter()'s step
filterThen(current) ==
    LET keep       == unit[current + 1].val
        key        == KeyAt(current)
        item       == ItemAt(current)
        writeIndex == unit[current + 1].writeIndex
    IN  /\ unit' = [ unit EXCEPT ![current + 1].st = "done" ]
        /\ IF Boolean(keep)
           THEN IF result.family = "map"
                THEN result' = KeyedSet(result, key, item) /\ nextTick(current + 1, writeIndex)
                ELSE IF result.family = "array"
                THEN result' = ArraySet(result, writeIndex, item) /\ nextTick(current + 1, writeIndex + 1)
                ELSE result' = KeyedSet(result, key, item) /\ nextTick(current + 1, writeIndex)
           ELSE UNCHANGED result /\ nextTick(current + 1, writeIndex)
        /\ UNCHANGED << streamVars, items, promises, call, stopOnReturn, calls, opStatus, opValue, inner >>

FilterThen ==
    \E p \in 0..(Size - 1) :
        /\ call.op = "filter"
        /\ unit[p + 1].st = "fulfilled"
        /\ filterThen(p)

FilterTick ==
    /\ call.op = "filter"
    /\ tick # << >>
    /\ tick' = Tail(tick)
    /\ \E b \in CbBehaviours : filterStep(result, Head(tick).current, Head(tick).writeIndex, b)
    /\ UNCHANGED << streamVars, items, promises, call, stopOnReturn >>

----------------------------------------------------------------------------
(* map *)

mapStep(collector, current, b) ==
    IF current < Plan.length
    THEN /\ launch(current, 0, b)
         /\ keepPending
         /\ result' = collector
    ELSE /\ result' = collector
         /\ resolve("collector")
         /\ UNCHANGED << unit, calls >>

map ==
    /\ opStatus = "idle"
    /\ IF Plan.thrown # "none"
       THEN throw(Plan.thrown) /\ UNCHANGED << unit, calls, result >>
       ELSE \E b \in CbBehaviours : mapStep(Plan.collector, 0, b)
    /\ UNCHANGED << streamVars, items, promises, call, stopOnReturn, tick >>

Map == call.op = "map" /\ map

\* the mapped value is appended behind the pre-sized slots instead of written to its slot
mapThenAppends(current) ==
    LET mappedValue == unit[current + 1].val
        key         == KeyAt(current)
    IN  /\ unit' = [ unit EXCEPT ![current + 1].st = "done" ]
        /\ result' = IF result.family = "array"
                     THEN ArraySet(result, Len(result.slots), mappedValue)
                     ELSE KeyedSet(result, key, mappedValue)
        /\ nextTick(current + 1, 0)
        /\ UNCHANGED << streamVars, items, promises, call, stopOnReturn, calls, opStatus, opValue, inner >>

\* the continuation of `promise` in map()'s step
mapThen(current) ==
    LET mappedValue == unit[current + 1].val
        key         == KeyAt(current)
    IN  /\ unit' = [ unit EXCEPT ![current + 1].st = "done" ]
        /\ result' = IF result.family = "map" THEN KeyedSet(result, key, mappedValue)
                     ELSE IF result.family = "array" THEN ArraySet(result, current, mappedValue)
                     ELSE KeyedSet(result, key, mappedValue)
        /\ nextTick(current + 1, 0)
        /\ UNCHANGED << streamVars, items, promises, call, stopOnReturn, calls, opStatus, opValue, inner >>

MapThen ==
    \E p \in 0..(Size - 1) :
        /\ call.op = "map"
        /\ unit[p + 1].st = "fulfilled"
        /\ mapThen(p)

MapTick ==
    /\ call.op = "map"
    /\ tick # << >>
    /\ tick' = Tail(tick)
    /\ \E b \in CbBehaviours : mapStep(result, Head(tick).current, b)
    /\ UNCHANGED << streamVars, items, promises, call, stopOnReturn >>

----------------------------------------------------------------------------
(* indexOf, find *)

\* the third argument is ignored
GetLastIgnored == "false"

\* the parameter `getLast = false` of the running call
GetLast == IF call.getLast = "undefined" THEN "false" ELSE call.getLast

\* getLast ? length - 1 : 0
FirstIndex(getLast) == IF Boolean(getLast) THEN Plan.length - 1 ELSE 0

\* getLast ? -1 : length
StopIndex(getLast) == IF Boolean(getLast) THEN -1 ELSE Plan.length

\* getLast ? -1 : +1
AdvanceBy(getLast) == IF Boolean(getLast) THEN -1 ELSE 1

\* the walk resolves with -1 at its end whatever the container
indexOfStepMinusOne(current, numItems, b) ==
    IF current = numItems
    THEN /\ resolve("-1")
         /\ UNCHANGED << unit, calls >>
    ELSE /\ launch(current, 0, b)
         /\ keepPending

indexOfStep(current, numItems, b) ==
    IF current = numItems
    THEN /\ resolve(IF Plan.hasIndexes THEN "undefined" ELSE "-1")
         /\ UNCHANGED << unit, calls >>
    ELSE /\ launch(current, 0, b)
         /\ keepPending

indexOf(getLast) ==
    /\ opStatus = "idle"
    /\ IF Plan.thrown # "none"
       THEN throw(Plan.thrown) /\ UNCHANGED << unit, calls >>
       ELSE \E b \in CbBehaviours : indexOfStep(FirstIndex(getLast), StopIndex(getLast), b)
    /\ UNCHANGED << streamVars, items, promises, call, stopOnReturn, tick, result >>

IndexOf == call.op = "indexOf" /\ indexOf(GetLast)

find(getLast) == indexOf(getLast)

Find == call.op = "find" /\ find(GetLast)

\* the walk goes on after the callback was satisfied
indexOfThenGoesOn(current) ==
    /\ unit' = [ unit EXCEPT ![current + 1].st = "done" ]
    /\ IF Boolean(unit[current + 1].val)
       THEN resolve(KeyAt(current)) /\ nextTick(current + AdvanceBy(GetLast), 0)
       ELSE nextTick(current + AdvanceBy(GetLast), 0) /\ UNCHANGED << opStatus, opValue, inner >>
    /\ UNCHANGED << streamVars, items, promises, call, stopOnReturn, result, calls >>

\* the continuation of `promise` in indexOf()'s step
indexOfThen(current) ==
    /\ unit' = [ unit EXCEPT ![current + 1].st = "done" ]
    /\ IF Boolean(unit[current + 1].val)
       THEN resolve(KeyAt(current)) /\ UNCHANGED tick
       ELSE nextTick(current + AdvanceBy(GetLast), 0) /\ UNCHANGED << opStatus, opValue, inner >>
    /\ UNCHANGED << streamVars, items, promises, call, stopOnReturn, result, calls >>

IndexOfThen ==
    \E p \in 0..(Size - 1) :
        /\ call.op \in { "indexOf", "find" }
        /\ unit[p + 1].st = "fulfilled"
        /\ indexOfThen(p)

IndexOfTick ==
    /\ call.op \in { "indexOf", "find" }
    /\ tick # << >>
    /\ tick' = Tail(tick)
    /\ \E b \in CbBehaviours : indexOfStep(Head(tick).current, StopIndex(GetLast), b)
    /\ UNCHANGED << streamVars, items, promises, call, stopOnReturn, result >>

----------------------------------------------------------------------------
(* multiMap *)

RECURSIVE multiMapCalls(_, _)
\* the callbacks the loop of multiMap() invokes at once, for index = from .. length - 1
multiMapCalls(log, from) ==
    IF from >= Plan.length THEN log ELSE multiMapCalls(launchCalls(log, from), from + 1)

\* only the work of the first element is started by the call
multiMapFirstOnly ==
    /\ opStatus = "idle"
    /\ IF Plan.thrown # "none"
       THEN throw(Plan.thrown) /\ UNCHANGED << unit, calls, result >>
       ELSE /\ \E b \in CbBehaviours :
                  /\ (Plan.length > 0 /\ IsPromise(ItemAt(0))) =>
                        b = [ mode |-> "return", r |-> "true" ]
                  /\ unit' = [ i \in 1..Plan.length |->
                                 IF i = 1 THEN launchUnit(0, 0, b) ELSE NoUnit ]
            /\ calls' = IF Plan.length > 0 THEN launchCalls(calls, 0) ELSE calls
            /\ result' = Plan.collector
            /\ keepPending
    /\ UNCHANGED << streamVars, items, promises, call, stopOnReturn, tick >>

multiMap ==
    /\ opStatus = "idle"
    /\ IF Plan.thrown # "none"
       THEN throw(Plan.thrown) /\ UNCHANGED << unit, calls, result >>
       ELSE /\ \E bs \in [ 1..Plan.length -> CbBehaviours ] :
                  /\ \A i \in 1..Plan.length :
                        IsPromise(ItemAt(i - 1)) => bs[i] = [ mode |-> "return", r |-> "true" ]
                  /\ unit' = [ i \in 1..Plan.length |-> launchUnit(i - 1, 0, bs[i]) ]
            /\ calls' = multiMapCalls(calls, 0)
            /\ result' = Plan.collector
            /\ keepPending
    /\ UNCHANGED << streamVars, items, promises, call, stopOnReturn, tick >>

MultiMap == call.op = "multiMap" /\ multiMap

\* a keyed collector is filled under the positions instead of the keys
multiMapThenKeyedByPosition ==
    LET mappedValues == [ i \in 1..Plan.length |-> unit[i].val ]
    IN  /\ unit' = [ i \in 1..Plan.length |-> [ unit[i] EXCEPT !.st = "done" ] ]
        /\ IF result.family = "array"
           THEN /\ result' = [ result EXCEPT !.slots = mappedValues ]
                /\ resolve("mappedValues")
           ELSE /\ result' = [ result EXCEPT !.entries =
                        [ i \in 1..Plan.length |-> [ key |-> Digits[i], val |-> mappedValues[i] ] ] ]
                /\ resolve("collector")
        /\ UNCHANGED << streamVars, items, promises, call, stopOnReturn, tick, calls >>

\* the mapped values are taken in the order the callbacks were invoked in
multiMapThenInCallOrder ==
    LET mappedValues == [ i \in 1..Plan.length |-> unit[calls[i].pos + 1].val ]
    IN  /\ unit' = [ i \in 1..Plan.length |-> [ unit[i] EXCEPT !.st = "done" ] ]
        /\ IF result.family = "array"
           THEN /\ result' = [ result EXCEPT !.slots = mappedValues ]
                /\ resolve("mappedValues")
           ELSE /\ result' = [ result EXCEPT !.entries =
                        [ i \in 1..Plan.length |-> [ key |-> Plan.indexes[i], val |-> mappedValues[i] ] ] ]
                /\ resolve("collector")
        /\ UNCHANGED << streamVars, items, promises, call, stopOnReturn, tick, calls >>

\* Promise.all( mapping ).then( mappedValues => ... ): every mapping is fulfilled
multiMapThen ==
    LET mappedValues == [ i \in 1..Plan.length |-> unit[i].val ]
    IN  /\ unit' = [ i \in 1..Plan.length |-> [ unit[i] EXCEPT !.st = "done" ] ]
        /\ IF result.family = "array"
           THEN /\ result' = [ result EXCEPT !.slots = mappedValues ]
                /\ resolve("mappedValues")
           ELSE /\ result' = [ result EXCEPT !.entries =
                        [ i \in 1..Plan.length |-> [ key |-> Plan.indexes[i], val |-> mappedValues[i] ] ] ]
                /\ resolve("collector")
        /\ UNCHANGED << streamVars, items, promises, call, stopOnReturn, tick, calls >>

MultiMapThen ==
    /\ call.op = "multiMap"
    /\ opStatus = "pending"
    /\ \A i \in 1..Size : unit[i].st = "fulfilled"
    /\ multiMapThen

\* a rejected mapping is passed on like a value instead of rejecting the whole
multiMapCatchAsValue(current) ==
    /\ unit' = [ unit EXCEPT ![current + 1].st = "fulfilled" ]
    /\ UNCHANGED << streamVars, items, promises, call, stopOnReturn, tick, result, calls, opStatus, opValue, inner >>

\* Promise.all( mapping ): one of the mappings is rejected
multiMapCatch(current) ==
    /\ unit' = [ unit EXCEPT ![current + 1].st = "failed" ]
    /\ reject(unit[current + 1].val)
    /\ UNCHANGED << streamVars, items, promises, call, stopOnReturn, tick, result, calls >>

MultiMapCatch ==
    \E p \in 0..(Size - 1) :
        /\ call.op = "multiMap"
        /\ unit[p + 1].st = "rejected"
        /\ multiMapCatch(p)

----------------------------------------------------------------------------
(* Reactions shared by all operations *)

\* a promise among the elements settles
SettlePromise ==
    \E h \in DOMAIN promises :
        /\ promises[h].state = "pending"
        /\ promises' = [ promises EXCEPT ![h].state = promises[h].fate ]
        /\ UNCHANGED << streamVars, items, call, stopOnReturn, unit, tick, result, calls, opStatus, opValue, inner >>

\* the callback is registered for the rejection of the element as well
itemThenOnRejectionToo(current, b) ==
    LET p == promises[ItemAt(current)]
    IN  /\ unit' = [ unit EXCEPT ![current + 1] = Outcome(unit[current + 1], current, b) ]
        /\ calls' = Append(calls, Invocation(current, p.value))
        /\ UNCHANGED << streamVars, items, promises, call, stopOnReturn, tick, result, opStatus, opValue, inner >>

\* item.then( i => fn( i, key, collection ) ): the element has settled
itemThen(current, b) ==
    LET p == promises[ItemAt(current)]
    IN  /\ IF p.state = "fulfilled"
           THEN /\ unit' = [ unit EXCEPT ![current + 1] = Outcome(unit[current + 1], current, b) ]
                /\ calls' = Append(calls, Invocation(current, p.value))
           ELSE /\ unit' = [ unit EXCEPT ![current + 1].st = "rejected", ![current + 1].val = p.value ]
                /\ UNCHANGED calls
        /\ UNCHANGED << streamVars, items, promises, call, stopOnReturn, tick, result, opStatus, opValue, inner >>

ItemThen ==
    \E p \in 0..(Size - 1) :
        /\ unit[p + 1].st = "awaitItem"
        /\ promises[ItemAt(p)].state # "pending"
        /\ \E b \in CbBehaviours : itemThen(p, b)

\* the promise the callback returned settles
callbackSettles(current, r, ok) ==
    /\ unit' = [ unit EXCEPT ![current + 1] =
            IF @.st = "awaitCb"
            THEN [ @ EXCEPT !.st = IF ok THEN "fulfilled" ELSE "rejected",
                            !.val = IF ok THEN r ELSE CbErrors[current + 1],
                            !.outstanding = FALSE ]
            ELSE [ @ EXCEPT !.outstanding = FALSE ] ]
    /\ UNCHANGED << streamVars, items, promises, call, stopOnReturn, tick, result, calls, opStatus, opValue, inner >>

CallbackSettles ==
    \E p \in 0..(Size - 1) :
        /\ unit[p + 1].outstanding
        /\ \/ \E r \in CbResults : callbackSettles(p, r, TRUE)
           \/ callbackSettles(p, "", FALSE)

Sequential == { "each", "some", "every", "filter", "map", "find", "indexOf" }

\* the failure is swallowed and the walk goes on with the next element
stepCatchGoesOn(current) ==
    /\ unit' = [ unit EXCEPT ![current + 1].st = "failed" ]
    /\ nextTick(current + 1, unit[current + 1].writeIndex)
    /\ UNCHANGED << streamVars, items, promises, call, stopOnReturn, result, calls, opStatus, opValue, inner >>

\* .catch( reject ) of a sequential step
stepCatch(current) ==
    /\ unit' = [ unit EXCEPT ![current + 1].st = "failed" ]
    /\ reject(unit[current + 1].val)
    /\ UNCHANGED << streamVars, items, promises, call, stopOnReturn, tick, result, calls >>

StepCatch ==
    \E p \in 0..(Size - 1) :
        /\ call.op \in Sequential
        /\ unit[p + 1].st = "rejected"
        /\ stepCatch(p)

----------------------------------------------------------------------------
(* process *)

iterationVars == << items, promises, stopOnReturn, unit, tick, result, inner >>

\* the error the stream emits
StreamError == "E"

\* the ordinals are counted from 1
ProcessInvocationFromOne(item, index) ==
    [ this |-> "target", item |-> item, index |-> index + 1, stream |-> "stream" ]

\* fn.call( target, item, counter++, stream )
ProcessInvocation(item, index) ==
    [ this |-> "target", item |-> item, index |-> index, stream |-> "stream" ]

\* what an invocation of the callback does: return no promise, throw, or return
\* a promise; defaultProcessor() only ever returns
FnBehaviours == IF fn = "defaultProcessor" THEN { "return" } ELSE { "return", "throw", "promise" }

\* this[name] || []
Field(this, name) ==
    IF \E i \in 1..Len(this.entries) : this.entries[i].key = name
    THEN this.entries[CHOOSE i \in 1..Len(this.entries) : this.entries[i].key = name].val
    ELSE << >>

\* only the latest item is kept
CollectLatestOnly(this, name, item) == KeyedSet(this, name, << item >>)

\* this[name] = ( this[name] || [] ).concat( [ item ] )
Collect(this, name, item) == KeyedSet(this, name, Append(Field(this, name), item))

\* the items are collected in a field named after the callbacks of the tests
defaultProcessorIntoChunks(this, item) == Collect(this, "chunks", item)

\* if ( !this.collected ) this.collected = []; this.collected.push( item )
defaultProcessor(this, item) == Collect(this, "collected", item)

\* the callback of the tests, which records a chunk once it is done with it
chunkProcessor(this, item) == Collect(this, "chunks", item)

\* the context after the callback has completed for `item`
Processed(this, item) ==
    IF fn = "defaultProcessor" THEN defaultProcessor(this, item) ELSE chunkProcessor(this, item)

\* the ghost log of the events process() has handled
logEvent(type, ordinal, did) ==
    events' = Append(events, [ type |-> type, ordinal |-> ordinal, did |-> did,
                               paused |-> stream.paused, outstanding |-> inflight # { },
                               awaited |-> inflight # { } \/ reactions # { },
                               before |-> opStatus, after |-> opStatus' ])

\* the stream is left as it was given: no stream.resume() at the start
processWithoutResume ==
    /\ opStatus = "idle"
    /\ fn' = IF fn = "undefined" THEN "defaultProcessor" ELSE fn
    /\ counter' = 0
    /\ target' = NewObject
    /\ finished' = FALSE
    /\ failure' = "null"
    /\ stream' = stream
    /\ keepPending
    /\ UNCHANGED << iterationVars, call, calls, inflight, reactions, events >>

\* static process( stream, fn = defaultProcessor ) up to stream.resume()
process ==
    /\ opStatus = "idle"
    /\ fn' = IF fn = "undefined" THEN "defaultProcessor" ELSE fn
    /\ counter' = 0
    /\ target' = NewObject
    /\ finished' = FALSE
    /\ failure' = "null"
    /\ stream' = [ stream EXCEPT !.paused = FALSE ]
    /\ keepPending
    /\ UNCHANGED << iterationVars, call, calls, inflight, reactions, events >>

Process == call.op = "process" /\ process

\* the stream is left flowing while the promise of the callback is pending
stepWithoutPause(delivered, item, b) ==
    /\ calls' = Append(calls, ProcessInvocation(item, counter))
    /\ counter' = counter + 1
    /\ CASE b = "return" ->
                /\ target' = Processed(target, item)
                /\ stream' = delivered
                /\ UNCHANGED << inflight, opStatus, opValue, inner >>
         [] b = "promise" ->
                /\ stream' = delivered
                /\ inflight' = inflight \cup { counter }
                /\ UNCHANGED << target, opStatus, opValue, inner >>
         [] b = "throw" ->
                /\ stream' = [ delivered EXCEPT !.paused = TRUE ]
                /\ reject(CbErrors[counter + 1])
                /\ UNCHANGED << target, inflight, reactions >>
    /\ UNCHANGED << fn, finished, failure, reactions >>

\* step( item ), `delivered` being the stream that has emitted the chunk
step(delivered, item, b) ==
    /\ calls' = Append(calls, ProcessInvocation(item, counter))
    /\ counter' = counter + 1
    /\ CASE b = "return" ->
                /\ target' = Processed(target, item)
                /\ stream' = delivered
                /\ UNCHANGED << inflight, opStatus, opValue, inner >>
         [] b = "promise" ->
                /\ stream' = [ delivered EXCEPT !.paused = TRUE ]
                /\ inflight' = inflight \cup { counter }
                /\ UNCHANGED << target, opStatus, opValue, inner >>
         [] b = "throw" ->
                /\ stream' = [ delivered EXCEPT !.paused = TRUE ]
                /\ reject(CbErrors[counter + 1])
                /\ UNCHANGED << target, inflight, reactions >>
    /\ UNCHANGED << fn, finished, failure, reactions >>

\* the stream emits "data": only while it is flowing
Data ==
    /\ call.op = "process" /\ opStatus # "idle"
    /\ ~stream.paused
    /\ stream.chunks # << >>
    /\ \E b \in FnBehaviours :
          /\ step([ stream EXCEPT !.chunks = Tail(@) ], Head(stream.chunks), b)
          /\ logEvent("data", counter, b)
    /\ UNCHANGED << iterationVars, call >>

\* the error of the stream rejects at once, whether or not the stream is paused
onErrorAtOnce(error) ==
    /\ failure' = error
    /\ reject(error)
    /\ UNCHANGED << fn, counter, target, finished, inflight, reactions >>

\* .on( "error", error => ... )
onError(error) ==
    /\ failure' = error
    /\ IF ~stream.paused THEN reject(error) ELSE UNCHANGED << opStatus, opValue, inner >>
    /\ UNCHANGED << fn, counter, target, finished, inflight, reactions >>

\* the stream emits "error", at most once
Error ==
    /\ call.op = "process" /\ opStatus # "idle"
    /\ ~stream.errored
    /\ stream' = [ stream EXCEPT !.errored = TRUE ]
    /\ onError(StreamError)
    /\ logEvent("error", -1, "")
    /\ UNCHANGED << iterationVars, call, calls >>

\* the end of the stream is only noted, for the continuation of a callback to act on
onEndNotedOnly ==
    /\ finished' = TRUE
    /\ UNCHANGED << opStatus, opValue, inner >>
    /\ UNCHANGED << fn, counter, target, failure, inflight, reactions >>

\* the end of the stream resolves at once, whether or not the stream is paused
onEndAtOnce ==
    /\ finished' = TRUE
    /\ resolve("target")
    /\ UNCHANGED << fn, counter, target, failure, inflight, reactions >>

\* .on( "end", () => ... )
onEnd ==
    /\ finished' = TRUE
    /\ IF ~stream.paused THEN resolve("target") ELSE UNCHANGED << opStatus, opValue, inner >>
    /\ UNCHANGED << fn, counter, target, failure, inflight, reactions >>

\* the stream emits "end", once, when all its chunks are delivered
End ==
    /\ call.op = "process" /\ opStatus # "idle"
    /\ stream.chunks = << >>
    /\ ~stream.ended
    /\ stream' = [ stream EXCEPT !.ended = TRUE ]
    /\ onEnd
    /\ logEvent("end", -1, "")
    /\ UNCHANGED << iterationVars, call, calls >>

\* the promise the callback returned for `ordinal` settles, fulfilled once the
\* callback has completed its work on the context; its continuation is queued
fnSettles(ordinal, ok) ==
    /\ inflight' = inflight \ { ordinal }
    /\ reactions' = reactions \cup { [ ordinal |-> ordinal, ok |-> ok ] }
    /\ target' = IF ok THEN Processed(target, calls[ordinal + 1].item) ELSE target
    /\ UNCHANGED << iterationVars, call, calls, stream, fn, counter, finished, failure, events,
                    opStatus, opValue >>

FnSettles ==
    \E ordinal \in inflight, ok \in BOOLEAN :
        /\ call.op = "process"
        /\ fnSettles(ordinal, ok)

\* the continuation only resumes the stream: a deferred end or error is forgotten
processThenForgetful(ordinal) ==
    /\ reactions' = reactions \ { [ ordinal |-> ordinal, ok |-> TRUE ] }
    /\ stream' = [ stream EXCEPT !.paused = FALSE ]
    /\ UNCHANGED << opStatus, opValue, inner >>
    /\ UNCHANGED << fn, counter, target, finished, failure, inflight >>

\* result.then( () => ... ): the continuation of the fulfilled promise of the
\* callback invoked with `ordinal`
processThen(ordinal) ==
    /\ reactions' = reactions \ { [ ordinal |-> ordinal, ok |-> TRUE ] }
    /\ stream' = [ stream EXCEPT !.paused = FALSE ]
    /\ IF finished THEN resolve("target")
       ELSE IF failure # "null" THEN reject(failure)
       ELSE UNCHANGED << opStatus, opValue, inner >>
    /\ UNCHANGED << fn, counter, target, finished, failure, inflight >>

FnFulfils ==
    \E r \in reactions :
        /\ call.op = "process"
        /\ r.ok
        /\ processThen(r.ordinal)
        /\ logEvent("fulfilled", r.ordinal, "")
        /\ UNCHANGED << iterationVars, call, calls >>

\* the stream is resumed when the promise of the callback is rejected, too
processCatchResumes(ordinal) ==
    /\ reactions' = reactions \ { [ ordinal |-> ordinal, ok |-> FALSE ] }
    /\ reject(CbErrors[ordinal + 1])
    /\ stream' = [ stream EXCEPT !.paused = FALSE ]
    /\ UNCHANGED << fn, counter, target, finished, failure, inflight >>

\* .catch( reject ): the continuation of the rejected promise of the callback
processCatch(ordinal) ==
    /\ reactions' = reactions \ { [ ordinal |-> ordinal, ok |-> FALSE ] }
    /\ reject(CbErrors[ordinal + 1])
    /\ UNCHANGED << fn, counter, target, finished, failure, inflight, stream >>

FnRejects ==
    \E r \in reactions :
        /\ call.op = "process"
        /\ ~r.ok
        /\ processCatch(r.ordinal)
        /\ logEvent("rejected", r.ordinal, "")
        /\ UNCHANGED << iterationVars, call, calls >>

----------------------------------------------------------------------------
(* promisify *)

\* the arguments the promisified function is called with
Args == << "a1", "a2", "a3" >>

\* what the wrapped function passes to the callback as `error` and as `result`
ErrorArguments == { "undefined", "null", "0", "err" }
ResultArguments == { "undefined", "r" }

\* what the wrapped function throws
Exception == "exception"

\* the callback promisify() appends to the arguments
Synthesized == "( error, result ) => ..."

\* bindTo === undefined ? this : bindTo
Receiver(this, bindTo) == IF bindTo = "undefined" THEN this ELSE bindTo

\* copy[i] = args[i] for i < length; copy[length] = ( error, result ) => ...
Copy(args) == [ i \in 1..(Len(args) + 1) |-> IF i <= Len(args) THEN args[i] ELSE Synthesized ]

\* the first argument is not looked at
synthesizedAlwaysResolves(error, outcome) == resolve(outcome)

\* ( error, result ) => { if ( error ) reject( error ); else resolve( result ); }
synthesized(error, outcome) == IF Boolean(error) THEN reject(error) ELSE resolve(outcome)

\* what the wrapped function does while it is being called: return, throw, or
\* invoke the callback and then return or throw
WrappedBehaviours ==
    [ mode : { "return", "throw" }, error : { "" }, result : { "" } ]
    \cup [ mode : { "callback, return", "callback, throw" },
           error : ErrorArguments, result : ResultArguments ]

\* the ghost log of what the promise of the promisified function was told
logSettling(type, error, outcome) ==
    events' = Append(events, [ type |-> type, error |-> error, result |-> outcome,
                               before |-> IF opStatus = "idle" THEN "pending" ELSE opStatus,
                               after |-> opStatus' ])

\* the function promisify( fn, bindTo ) returns, called on call.this with call.args
promisified(b) ==
    /\ opStatus = "idle"
    /\ calls' = << [ this |-> Receiver(call.this, call.bindTo), args |-> Copy(call.args) ] >>
    /\ CASE b.mode = "return" ->
                keepPending /\ UNCHANGED events
         [] b.mode = "throw" ->
                reject(Exception) /\ logSettling("throw", "", "")
         [] OTHER ->
                synthesized(b.error, b.result) /\ logSettling("callback", b.error, b.result)
    /\ UNCHANGED << iterationVars, call, stream, fn, counter, target, finished, failure, inflight,
                    reactions >>

Promisified ==
    /\ call.op = "promisify"
    /\ \E b \in WrappedBehaviours : promisified(b)

\* the wrapped function invokes the callback after it has returned or thrown
Callback ==
    /\ call.op = "promisify"
    /\ opStatus # "idle"
    /\ Cardinality({ e \in 1..Len(events) : events[e].type = "callback" }) < MaxCallbacks
    /\ \E error \in ErrorArguments, outcome \in ResultArguments :
          /\ synthesized(error, outcome)
          /\ logSettling("callback", error, outcome)
    /\ UNCHANGED << iterationVars, call, calls, stream, fn, counter, target, finished, failure,
                    inflight, reactions >>

\* promisify( fn, bindTo )( ...args ): up to MaxArgs arguments
PromisifyInit ==
    /\ \E n \in 0..MaxArgs, bindTo \in { "undefined", "null", "bound" },
          this \in { "undefined", "caller" } :
          call = [ op |-> "promisify", args |-> SubSeq(Args, 1, n), bindTo |-> bindTo,
                   this |-> this ]
    /\ items = MakeItems("array", << >>)
    /\ promises = MakePromises(<< >>)
    /\ unit = << >>
    /\ stopOnReturn = "null"
    /\ tick = << >>
    /\ result = NoCollector
    /\ calls = << >>
    /\ opStatus = "idle"
    /\ opValue = ""
    /\ inner = NoInner
    /\ stream = [ chunks |-> << >>, paused |-> FALSE, ended |-> FALSE, errored |-> FALSE ]
    /\ fn = "undefined"
    /\ counter = 0
    /\ target = NoCollector
    /\ finished = FALSE
    /\ failure = "null"
    /\ inflight = { }
    /\ reactions = { }
    /\ events = << >>

PromisifyNext == Promisified \/ Callback

PromisifySpec == PromisifyInit /\ [][PromisifyNext]_vars

----------------------------------------------------------------------------
(* Specification *)

\* the containers of a call: find() is also given elements that are undefined
Kinds(op) ==
    UNION { [ 1..n -> IF op = "find" THEN ItemKinds \cup { UndefinedKind } ELSE ItemKinds ] :
                n \in 0..(IF op = "multiMap" THEN MaxParallel ELSE MaxLen) }

\* { asArray = true } = {}
asArrayDefault(option) == IF option = "undefined" THEN TRUE ELSE Boolean(option)

\* what is passed as the third argument of find() and indexOf(): nothing, a
\* boolean, or an options object
GetLastArguments == { "undefined", "false", "true", "{getLast:false}", "{getLast:true}" }

ApiCall(op, sor, asArrayOption, getLast) ==
    [ op |-> op, stopOnReturn |-> sor, asArrayOption |-> asArrayOption,
      asArray |-> asArrayDefault(asArrayOption), getLast |-> getLast ]

ApiCalls ==
    { ApiCall("each", sor, "undefined", "undefined") : sor \in { "null", "true", "false" } }
    \cup { ApiCall(op, "null", "undefined", "undefined") : op \in { "some", "every" } }
    \cup { ApiCall(op, "null", asArrayOption, "undefined") :
                op \in { "filter", "map", "multiMap" },
                asArrayOption \in { "undefined", "true", "false" } }
    \cup { ApiCall(op, "null", "undefined", getLast) :
                op \in { "find", "indexOf" }, getLast \in GetLastArguments }

Init ==
    /\ call \in ApiCalls
    /\ \E shape \in Shapes \cup NoContainers, kinds \in Kinds(call.op) :
          /\ shape \in NoContainers => kinds = << >>
          /\ items = MakeItems(shape, kinds)
          /\ promises = MakePromises(kinds)
          /\ unit = [ i \in 1..Len(kinds) |-> NoUnit ]
    /\ stopOnReturn = "null"
    /\ tick = << >>
    /\ result = NoCollector
    /\ calls = << >>
    /\ opStatus = "idle"
    /\ opValue = ""
    /\ inner = NoInner
    /\ stream = [ chunks |-> << >>, paused |-> FALSE, ended |-> FALSE, errored |-> FALSE ]
    /\ fn = "undefined"
    /\ counter = 0
    /\ target = NoCollector
    /\ finished = FALSE
    /\ failure = "null"
    /\ inflight = { }
    /\ reactions = { }
    /\ events = << >>

Next ==
    \/ Each
    \/ Some
    \/ Every
    \/ EachThen
    \/ EachTick
    \/ Filter
    \/ FilterThen
    \/ FilterTick
    \/ Map
    \/ MapThen
    \/ MapTick
    \/ IndexOf
    \/ Find
    \/ IndexOfThen
    \/ IndexOfTick
    \/ MultiMap
    \/ MultiMapThen
    \/ MultiMapCatch
    \/ SettlePromise
    \/ ItemThen
    \/ CallbackSettles
    \/ StepCatch
    \/ ChainedThen
    \/ ChainedAdopts

Spec == Init /\ [][Next]_vars

\* the calls whose termination is checked: containers of up to MaxLive elements
LiveInit ==
    /\ call \in ApiCalls
    /\ \E shape \in Shapes :
       \E kinds \in UNION { [ 1..n -> IF call.op = "find" THEN ItemKinds \cup { UndefinedKind }
                                      ELSE ItemKinds ] : n \in 0..MaxLive } :
          /\ items = MakeItems(shape, kinds)
          /\ promises = MakePromises(kinds)
          /\ unit = [ i \in 1..Len(kinds) |-> NoUnit ]
    /\ stopOnReturn = "null"
    /\ tick = << >>
    /\ result = NoCollector
    /\ calls = << >>
    /\ opStatus = "idle"
    /\ opValue = ""
    /\ inner = NoInner
    /\ stream = [ chunks |-> << >>, paused |-> FALSE, ended |-> FALSE, errored |-> FALSE ]
    /\ fn = "undefined"
    /\ counter = 0
    /\ target = NoCollector
    /\ finished = FALSE
    /\ failure = "null"
    /\ inflight = { }
    /\ reactions = { }
    /\ events = << >>

\* the call is made
Called == Each \/ Some \/ Every \/ Filter \/ Map \/ IndexOf \/ Find \/ MultiMap

\* the reactions of the engine: continuations of promises and scheduled steps
Reacts ==
    \/ EachThen \/ EachTick \/ FilterThen \/ FilterTick \/ MapThen \/ MapTick
    \/ IndexOfThen \/ IndexOfTick \/ MultiMapThen \/ MultiMapCatch \/ ItemThen \/ StepCatch
    \/ ChainedThen \/ ChainedAdopts

\* the call is made, the job queues of the engine are served, every promise
\* among the elements and every promise of the callback settles
FairSpec ==
    /\ LiveInit /\ [][Next]_vars
    /\ WF_vars(Called)
    /\ WF_vars(Reacts)
    /\ WF_vars(SettlePromise)
    /\ WF_vars(CallbackSettles)

\* process(): a stream of up to MaxChunks chunks, flowing or paused, and the
\* callback given or left out
ProcessInit ==
    /\ call = ApiCall("process", "null", "undefined", "undefined")
    /\ \E n \in 0..MaxChunks, paused \in BOOLEAN :
          stream = [ chunks |-> SubSeq(Chunks, 1, n), paused |-> paused,
                     ended |-> FALSE, errored |-> FALSE ]
    /\ fn \in { "undefined", "fn" }
    /\ counter = 0
    /\ target = NoCollector
    /\ finished = FALSE
    /\ failure = "null"
    /\ inflight = { }
    /\ reactions = { }
    /\ events = << >>
    /\ items = MakeItems("array", << >>)
    /\ promises = MakePromises(<< >>)
    /\ unit = << >>
    /\ stopOnReturn = "null"
    /\ tick = << >>
    /\ result = NoCollector
    /\ calls = << >>
    /\ opStatus = "idle"
    /\ opValue = ""
    /\ inner = NoInner

ProcessNext ==
    \/ Process
    \/ Data
    \/ Error
    \/ End
    \/ FnSettles
    \/ FnFulfils
    \/ FnRejects

ProcessSpec == ProcessInit /\ [][ProcessNext]_vars

----------------------------------------------------------------------------
(* Vocabulary of the properties, read off the container and the log *)

\* the element at the i-th place of the traversal order is a promise
ElementIsPromise(i) == items.entries[i].item \in DOMAIN promises

\* the value the callback is to see for the i-th element
ElementValue(i) ==
    IF ElementIsPromise(i) THEN promises[items.entries[i].item].value ELSE items.entries[i].item

\* the unit of work of the i-th element is under way: its promise is not settled
\* and handled yet, or the promise its callback returned is still pending
Active(i) == unit[i].st \notin { "none", "done", "failed" } \/ unit[i].outstanding

\* the walk runs from the last element to the first
Backward == call.op \in { "find", "indexOf" } /\ Boolean(GetLast)

\* position q comes after position p in the direction of the walk
After(p, q) == IF Backward THEN q < p ELSE q > p

\* the callback has settled with `value` for the i-th element
Returned(i, value) == unit[i].st = "done" /\ unit[i].val = value

\* the callback has settled with a truthy value for the i-th element
ReturnedTruthy(i) == unit[i].st = "done" /\ Boolean(unit[i].val)

\* the invocations each() owes its callback, in traversal order
ExpectedCalls ==
    [ i \in 1..Size |-> [ pos |-> i - 1, key |-> items.entries[i].key,
                          value |-> ElementValue(i), collection |-> "items" ] ]

\* the places of the elements the callback of filter() was truthy for, in order
KeptPlaces == SelectSeq([ i \in 1..Size |-> i ], LAMBDA i : Boolean(unit[i].val))

\* the collection a mapping of the source is to deliver, whichever operation
\* computes it: the callback results by place, in the family asArray asks for
MappedContent ==
    IF call.asArray \/ items.shape \in { "array", "arraylike" }
    THEN [ family |-> "array", slots |-> [ i \in 1..Size |-> unit[i].val ], entries |-> << >> ]
    ELSE [ family |-> items.shape, slots |-> << >>,
           entries |-> [ i \in 1..Size |-> [ key |-> items.entries[i].key, val |-> unit[i].val ] ] ]

\* the walk has not settled the promise it has created
WalkPending == opStatus = "pending" /\ inner.status = "pending"

\* the promise returned to the caller is resolved with `value`, or, in every()
\* and find(), the promise of the walk is resolved and the continuation that
\* resolves the returned promise is yet to run
ResolvedWith(value) ==
    \/ opStatus = "resolved" /\ opValue = value
    \/ Chained /\ opStatus = "pending" /\ inner.status = "resolved" /\ inner.chain # "done"

\* the promise returned to the caller is rejected with `reason`, or, in every()
\* and find(), the promise of the walk is and the continuation that passes the
\* rejection on is yet to run
RejectedWith(reason) ==
    \/ opStatus = "rejected" /\ opValue = reason
    \/ Chained /\ opStatus = "pending" /\ inner.chain = "none"
          /\ inner.status = "rejected" /\ inner.value = reason

\* the work for the i-th element has failed: its promise holds the rejection
\* reason of the element or the failure of the callback
WorkFailed(i) == unit[i].val \in { ItemReasons[i], CbErrors[i] }

RECURSIVE Reverse(_)
\* a sequence read from its end: the order a backward walk visits the elements in
Reverse(seq) == IF seq = << >> THEN << >> ELSE Append(Reverse(Tail(seq)), Head(seq))

----------------------------------------------------------------------------
(* Properties *)

\* C1: in a sequential operation at most one unit of work is under way at any
\* time, a next step is scheduled only when none is, and whenever the callback
\* has been invoked for a further element, the unit of every element it was
\* invoked for before is settled: its element resolved, its returned promise
\* settled, its continuation run.
C1_OneAtATime ==
    call.op \in Sequential =>
        /\ Cardinality({ i \in 1..Size : Active(i) }) + Len(tick) <= 1
        /\ \A k \in 1..(Len(calls) - 1) :
              /\ ~Active(calls[k].pos + 1)
              /\ unit[calls[k].pos + 1].st = "done"
              /\ ElementIsPromise(calls[k].pos + 1) =>
                    promises[items.entries[calls[k].pos + 1].item].state = "fulfilled"

\* C1 witness: the callback is running for a second element, having returned a
\* promise, after the first element was a promise
C1_Witness ==
    /\ call.op \in Sequential
    /\ Len(calls) = 2
    /\ unit[calls[2].pos + 1].outstanding
    /\ ElementIsPromise(calls[1].pos + 1)

\* C2: each() without stopOnReturn invokes its callback with (resolved value,
\* key, source container) for the elements in traversal order, each once, and
\* having resolved it has done so for every element and hands back the source.
C2_EachVisitsAllInOrder ==
    (call.op = "each" /\ call.stopOnReturn = "null") =>
        /\ Len(calls) <= Size
        /\ \A k \in 1..Len(calls) : calls[k] = ExpectedCalls[k]
        /\ opStatus = "resolved" => (calls = ExpectedCalls /\ opValue = "items")

\* C2 witness: each() has walked a Map of three elements, one of them a promise
C2_Witness ==
    /\ call.op = "each" /\ call.stopOnReturn = "null"
    /\ items.shape = "map" /\ Size = 3 /\ ElementIsPromise(2)
    /\ opStatus = "resolved"

\* C3: the callback is never handed a promise, and for an element that is a
\* promise it is invoked only once that promise is fulfilled, with its value.
C3_CallbackGetsResolution ==
    \A k \in 1..Len(calls) :
        /\ calls[k].value \notin DOMAIN promises
        /\ ElementIsPromise(calls[k].pos + 1) =>
              /\ promises[items.entries[calls[k].pos + 1].item].state = "fulfilled"
              /\ calls[k].value = promises[items.entries[calls[k].pos + 1].item].value

\* C3 witness: multiMap() has invoked its callback for two elements that are promises
C3_Witness ==
    /\ call.op = "multiMap"
    /\ Len(calls) = 2
    /\ ElementIsPromise(1) /\ ElementIsPromise(2)

\* C4: in a sequential operation the callback is never invoked for an element
\* that is a rejected promise; once the walk has met that rejection no later
\* element is visited, and the operation is rejected with the element's reason.
C4_RejectedElementAborts ==
    call.op \in Sequential =>
        \A i \in 1..Size :
            (ElementIsPromise(i) /\ promises[items.entries[i].item].state = "rejected") =>
                /\ \A k \in 1..Len(calls) : calls[k].pos # i - 1
                /\ unit[i].st \in { "rejected", "failed" } =>
                      \A k \in 1..Len(calls) : ~After(i - 1, calls[k].pos)
                /\ unit[i].st = "failed" =>
                      RejectedWith(promises[items.entries[i].item].value)

\* C4 witness: map() has failed on its second element, a rejected promise,
\* after the callback ran for the first
C4_Witness ==
    /\ call.op = "map" /\ Size = 3
    /\ ElementIsPromise(2) /\ unit[2].st = "failed"
    /\ Len(calls) = 1

\* C5: in a sequential operation a callback that threw or whose promise was
\* rejected is the last one invoked, and the operation is rejected with that
\* failure.
C5_CallbackFailureAborts ==
    call.op \in Sequential =>
        \A i \in 1..Size :
            (unit[i].st \in { "rejected", "failed" } /\ unit[i].val = CbErrors[i]) =>
                /\ calls # << >> /\ calls[Len(calls)].pos = i - 1
                /\ unit[i].st = "failed" => RejectedWith(CbErrors[i])

\* C5 witness: each() has failed by the callback of its second element of three
C5_Witness ==
    /\ call.op = "each" /\ Size = 3
    /\ unit[2].st = "failed" /\ unit[2].val = CbErrors[2]
    /\ Len(calls) = 2

\* C6: some() is resolved with true by the first truthy callback result, which
\* is then the last invocation, and with false otherwise, after the callback
\* has been invoked on every element.
C6_Some ==
    call.op = "some" =>
        /\ \A i \in 1..Size :
              ReturnedTruthy(i) =>
                  /\ opStatus = "resolved" /\ opValue = "true"
                  /\ calls[Len(calls)].pos = i - 1
        /\ opStatus = "resolved" =>
              IF \E i \in 1..Size : ReturnedTruthy(i)
              THEN opValue = "true"
              ELSE opValue = "false" /\ calls = ExpectedCalls

\* C6 witness: some() has stopped with true at the second of three elements
C6_Witness ==
    /\ call.op = "some" /\ Size = 3
    /\ opStatus = "resolved" /\ opValue = "true"
    /\ Len(calls) = 2

\* C7: every() resolves with false when a callback result is false, and with
\* true when the callback result is truthy for all elements.
C7_Every ==
    (call.op = "every" /\ opStatus = "resolved") =>
        /\ (\E i \in 1..Size : Returned(i, "false")) => opValue = "false"
        /\ (\A i \in 1..Size : ReturnedTruthy(i)) => opValue = "true"

\* C8 as stated: each() with stopOnReturn=false resolves with false when it
\* has stopped on a falsy callback result and with true, the negation of the
\* flag, when the walk is exhausted without one.
C8_AsStated ==
    (call.op = "each" /\ call.stopOnReturn = "false" /\ opStatus = "resolved") =>
        IF \E i \in 1..Size : unit[i].st = "done" /\ ~Boolean(unit[i].val)
        THEN opValue = "false"
        ELSE opValue = "true"

\* C9: map() resolves with a collection of as many entries as the source has
\* elements, in traversal order, the entry at each position (array) or key
\* (object, Map) being the settled callback result of that element.
C9_MapKeepsPlaces ==
    (call.op = "map" /\ opStatus = "resolved") =>
        /\ opValue = "collector"
        /\ \A i \in 1..Size : unit[i].st = "done"
        /\ IF call.asArray \/ items.shape \in { "array", "arraylike" }
           THEN /\ result.family = "array"
                /\ result.slots = [ i \in 1..Size |-> unit[i].val ]
           ELSE /\ result.family = items.shape
                /\ result.entries =
                      [ i \in 1..Size |-> [ key |-> items.entries[i].key, val |-> unit[i].val ] ]

\* C9 witness: map() has mapped three elements, one of them a promise, onto
\* results that differ
C9_Witness ==
    /\ call.op = "map" /\ call.asArray /\ Size = 3
    /\ opStatus = "resolved"
    /\ ElementIsPromise(2)
    /\ unit[1].val # unit[2].val

\* C10: filter() with asArray=true resolves with a dense array holding exactly
\* the elements whose callback result was truthy, in traversal order.
C10_FilterDense ==
    (call.op = "filter" /\ call.asArray /\ opStatus = "resolved") =>
        /\ opValue = "collector"
        /\ result.family = "array"
        /\ result.slots = [ k \in 1..Len(KeptPlaces) |-> items.entries[KeptPlaces[k]].item ]
        /\ \A k \in 1..Len(result.slots) : result.slots[k] # Hole

\* C10 witness: filter() has dropped the first of three elements and kept the others
C10_Witness ==
    /\ call.op = "filter" /\ call.asArray /\ Size = 3
    /\ opStatus = "resolved"
    /\ KeptPlaces = << 2, 3 >>

\* C11: every entry of the collection filter() resolves with is an element of
\* the source as the source holds it (a promise element is kept as that promise,
\* not as its value), and with asArray=false on an object or a Map the result
\* is of the source's family and holds exactly the keys whose callback result
\* was truthy, in traversal order, each with the source's element at that key.
C11_FilterKeepsSourceElements ==
    (call.op = "filter" /\ opStatus = "resolved") =>
        /\ \A k \in 1..Len(result.slots) :
              \E i \in 1..Size : result.slots[k] = items.entries[i].item
        /\ \A k \in 1..Len(result.entries) :
              \E i \in 1..Size :
                  result.entries[k] = [ key |-> items.entries[i].key, val |-> items.entries[i].item ]
        /\ (~call.asArray /\ items.shape \in { "object", "map" }) =>
              /\ opValue = "collector"
              /\ result.family = items.shape
              /\ result.entries =
                    [ k \in 1..Len(KeptPlaces) |->
                        [ key |-> items.entries[KeptPlaces[k]].key,
                          val |-> items.entries[KeptPlaces[k]].item ] ]

\* C11 witness: filter() with asArray=false has filtered a Map of three elements,
\* dropping the first and keeping the second, which is a promise, and the third
C11_Witness ==
    /\ call.op = "filter" /\ ~call.asArray /\ items.shape = "map" /\ Size = 3
    /\ opStatus = "resolved"
    /\ ElementIsPromise(2)
    /\ KeptPlaces = << 2, 3 >>

\* C12: the family of the collection filter(), map() and multiMap() resolve with
\* depends on the source's shape and the asArray option only: an array when
\* asArray is true or not given, and with asArray=false a Map for a Map, an
\* object for an object and an array for an array or an array-like source.
C12_ResultFamily ==
    (call.op \in { "filter", "map", "multiMap" } /\ opStatus = "resolved") =>
        /\ opValue \in { "collector", "mappedValues" }
        /\ result.family =
              IF call.asArrayOption \in { "undefined", "true" } THEN "array"
              ELSE CASE items.shape = "map"    -> "map"
                     [] items.shape = "object" -> "object"
                     [] OTHER                  -> "array"
        /\ opValue = "mappedValues" => result.family = "array"

\* C12 witness: multiMap() without options has mapped an object of two elements
C12_Witness ==
    /\ call.op = "multiMap" /\ call.asArrayOption = "undefined"
    /\ items.shape = "object" /\ Size = 2
    /\ opStatus = "resolved"

\* C13: for the same source, asArray and callback results, map() and multiMap()
\* resolve with the same content: in every interleaving either resolves with
\* one and the same function of the source and the callback results, which
\* does not depend on the operation.
C13_MultiMapLikeMap ==
    (call.op \in { "map", "multiMap" } /\ opStatus = "resolved") =>
        /\ \A i \in 1..Size : unit[i].st = "done" /\ ~WorkFailed(i)
        /\ result = MappedContent

\* C13 witness: multiMap() with asArray=false has mapped an object of two
\* elements onto results that differ
C13_Witness ==
    /\ call.op = "multiMap" /\ call.asArrayOption = "false"
    /\ items.shape = "object" /\ Size = 2
    /\ opStatus = "resolved"
    /\ unit[1].val # unit[2].val

\* C14: multiMap() places each callback result at the position or key of its
\* element, in whichever order the callbacks were invoked and have completed.
C14_MultiMapPlacement ==
    (call.op = "multiMap" /\ opStatus = "resolved") =>
        /\ Len(calls) = Size
        /\ \A k \in 1..Len(calls) :
              LET i == calls[k].pos + 1
              IN  /\ calls[k].key = items.entries[i].key
                  /\ IF result.family = "array"
                     THEN Len(result.slots) = Size /\ result.slots[i] = unit[i].val
                     ELSE \E e \in 1..Len(result.entries) :
                            /\ result.entries[e] = [ key |-> calls[k].key, val |-> unit[i].val ]
                            /\ \A f \in 1..Len(result.entries) :
                                  result.entries[f].key = calls[k].key => f = e

\* C14 witness: multiMap() has resolved after the callback of the second element
\* was invoked before that of the first, a promise, with results that differ
C14_Witness ==
    /\ call.op = "multiMap" /\ Size = 2
    /\ opStatus = "resolved"
    /\ ElementIsPromise(1)
    /\ calls[1].pos = 1 /\ calls[2].pos = 0
    /\ unit[1].val # unit[2].val

\* C15: when the work of an element of multiMap() fails (the element is
\* rejected, the callback throws or its promise is rejected), multiMap() never
\* resolves; once the failure is delivered multiMap() is rejected with the
\* failure of a failed element, and whatever the other elements' work does
\* afterwards, the rejection and its reason stay.
C15_MultiMapFailure ==
    /\ [](call.op = "multiMap" =>
            /\ (\E i \in 1..Size : WorkFailed(i)) => opStatus # "resolved"
            /\ \A i \in 1..Size : unit[i].st = "failed" => opStatus = "rejected"
            /\ opStatus = "rejected" =>
                  \E i \in 1..Size :
                      WorkFailed(i) /\ unit[i].st = "failed" /\ opValue = unit[i].val)
    /\ [][(call.op = "multiMap" /\ opStatus = "rejected") =>
              (opStatus' = "rejected" /\ opValue' = opValue)]_vars

\* C15 witness: multiMap() is rejected with the failure of the callback of its
\* first element while the promise the callback returned for the second is
\* still pending
C15_Witness ==
    /\ call.op = "multiMap" /\ Size = 2
    /\ opStatus = "rejected" /\ opValue = CbErrors[1]
    /\ unit[1].st = "failed"
    /\ unit[2].outstanding

\* C16: multiMap() starts the work of every element in the call itself, waiting
\* for no callback result: from then on every unit is under way, the callback
\* has been invoked for every element that is no promise, nothing is deferred
\* to a later step, and multiMap() resolves once all units are done; map() never
\* has more than one callback result outstanding and invokes the callback for
\* a further element only when the unit of the one before is done.
C16_AllAtOnce ==
    /\ (call.op = "multiMap" /\ opStatus # "idle") =>
          /\ \A i \in 1..Size : unit[i].st # "none"
          /\ \A i \in 1..Size :
                ~ElementIsPromise(i) => \E k \in 1..Len(calls) : calls[k].pos = i - 1
          /\ tick = << >>
          /\ (opStatus = "pending" /\ \A i \in 1..Size : unit[i].st = "fulfilled")
                => ENABLED MultiMapThen
          /\ opStatus = "resolved" => \A i \in 1..Size : unit[i].st = "done"
    /\ call.op = "map" =>
          /\ Cardinality({ i \in 1..Size : unit[i].outstanding }) <= 1
          /\ \A k \in 2..Len(calls) : unit[calls[k - 1].pos + 1].st = "done"

\* C16 witness: the callbacks of all elements of multiMap(), at least two, have
\* returned promises that are pending at the same time
C16_Witness ==
    /\ call.op = "multiMap" /\ Size >= 2
    /\ opStatus = "pending"
    /\ \A i \in 1..Size : unit[i].outstanding

\* C17: the first truthy callback result of indexOf() and find() resolves the
\* operation, indexOf() with the key (position) of that element and find() with
\* the element at that key; all elements before it in the direction of the
\* walk were visited with a falsy result and none after it is visited.  With
\* getLast false or not given these are the elements before it, so it is the
\* first satisfying element; with getLast true they are the elements after it,
\* so it is the last satisfying element.
C17_FirstInDirection ==
    call.op \in { "indexOf", "find" } =>
        \A i \in 1..Size :
            ReturnedTruthy(i) =>
                /\ ResolvedWith(IF call.op = "indexOf" THEN items.entries[i].key
                                ELSE ElementValue(i))
                /\ \A j \in 1..Size :
                      IF After(j - 1, i - 1)
                      THEN unit[j].st = "done" /\ ~Boolean(unit[j].val)
                      ELSE j # i => unit[j].st = "none"
                /\ call.getLast \in { "undefined", "false" } =>
                      \A j \in 1..(i - 1) : unit[j].st = "done" /\ ~Boolean(unit[j].val)
                /\ call.getLast = "true" =>
                      \A j \in (i + 1)..Size : unit[j].st = "done" /\ ~Boolean(unit[j].val)

\* C17 witness: find() with getLast=true has found the second of three
\* elements, a promise, after the third did not satisfy the callback
C17_Witness ==
    /\ call.op = "find" /\ call.getLast = "true" /\ Size = 3
    /\ ElementIsPromise(2) /\ ReturnedTruthy(2)
    /\ opStatus = "resolved" /\ opValue = ElemValues[2]
    /\ unit[3].st = "done" /\ unit[1].st = "none"

\* C18: find() and indexOf() walk backward if and only if the getLast option is
\* true: called without a third argument or with { getLast: false } the first
\* element they visit is the first one, called with { getLast: true } it is the
\* last one.
C18_AsStated ==
    (call.op \in { "find", "indexOf" }
        /\ call.getLast \in { "undefined", "{getLast:false}", "{getLast:true}" }
        /\ calls # << >>) =>
            calls[1].pos = IF call.getLast = "{getLast:true}" THEN Size - 1 ELSE 0

\* C19: when indexOf() or find() has resolved without a truthy callback result,
\* the callback has been invoked for every element once, in the direction of
\* the walk, and the result is -1 for indexOf() on an array or array-like
\* source, undefined for indexOf() on an object or a Map, and undefined for
\* find() on every source.
C19_NotFound ==
    (call.op \in { "indexOf", "find" } /\ opStatus = "resolved"
        /\ ~\E i \in 1..Size : ReturnedTruthy(i)) =>
            /\ calls = IF Backward THEN Reverse(ExpectedCalls) ELSE ExpectedCalls
            /\ opValue = IF call.op = "find" THEN "undefined"
                         ELSE IF items.shape \in { "array", "arraylike" } THEN "-1"
                         ELSE "undefined"

\* C19 witness: indexOf() with getLast=true has walked an object of three
\* elements, one of them a promise, without a truthy result
C19_Witness ==
    /\ call.op = "indexOf" /\ call.getLast = "true"
    /\ items.shape = "object" /\ Size = 3 /\ ElementIsPromise(2)
    /\ opStatus = "resolved" /\ opValue = "undefined"
    /\ Len(calls) = 3 /\ calls[1].pos = 2

\* C20 as stated: what find() resolves with when an element satisfies the
\* callback is never undefined, the value it resolves with when none does.
C20_AsStated ==
    (call.op = "find" /\ opStatus = "resolved" /\ \E i \in 1..Size : ReturnedTruthy(i)) =>
        opValue # "undefined"

\* process() is called, a flowing stream delivers its chunks and signals its
\* end, and every promise of the callback settles
FairProcessSpec ==
    /\ ProcessInit /\ [][ProcessNext]_vars
    /\ WF_vars(Process)
    /\ WF_vars(Data)
    /\ WF_vars(End)
    /\ WF_vars(FnSettles)
    /\ WF_vars(FnFulfils \/ FnRejects)

----------------------------------------------------------------------------
(* Vocabulary of the properties of process(), read off the logs *)

\* the chunks the callback has been invoked for, in order
DeliveredChunks == [ k \in 1..Len(calls) |-> calls[k].item ]

\* a callback result is outstanding: the callback has returned a promise and
\* process() has not yet run the continuation it chained onto it
Outstanding == inflight # { } \/ reactions # { }

\* the e-th event was handled while a callback result was outstanding
FoundOutstanding(e) == events[e].awaited

\* the e-th event is an end or error signal that found a callback result
\* outstanding and the operation unsettled
DeferredSignal(e) ==
    /\ events[e].type \in { "end", "error" }
    /\ FoundOutstanding(e)
    /\ events[e].before = "pending"

\* the f-th event is the first continuation of a settled callback result that
\* process() runs after the e-th
SettlesAfter(e, f) ==
    /\ f > e
    /\ events[f].type \in { "fulfilled", "rejected" }
    /\ \A g \in (e + 1)..(f - 1) : events[g].type \notin { "fulfilled", "rejected" }

\* the e-th event is a failure of the callback: it threw, or its promise was rejected
CallbackFailure(e) ==
    \/ events[e].type = "data" /\ events[e].did = "throw"
    \/ events[e].type = "rejected"

\* the chunks the callback has completed its work for, in order
CompletedChunks ==
    LET failed == { events[e].ordinal : e \in { d \in 1..Len(events) : CallbackFailure(d) } }
        done   == { k \in 1..Len(calls) : (k - 1) \notin inflight \cup failed }
    IN  [ k \in 1..Cardinality(done) |->
            calls[CHOOSE j \in done : Cardinality({ i \in done : i < j }) = k - 1].item ]

\* the chunks the context holds
ContextChunks == Field(target, IF fn = "defaultProcessor" THEN "collected" ELSE "chunks")

\* the latest event has made the operation fail with the error of the stream
FailedOnStreamError ==
    /\ events # << >>
    /\ events[Len(events)].before = "pending"
    /\ events[Len(events)].after = "rejected"
    /\ opValue = StreamError

----------------------------------------------------------------------------
(* Properties of process() *)

\* C21: in process() at most one promise returned by the callback is pending at
\* any time; while it is, the stream is paused and it belongs to the latest
\* invocation, and no chunk is ever handed to the callback while a promise of
\* an earlier invocation is pending.
C21_NoOverlap ==
    /\ Cardinality(inflight) <= 1
    /\ \A k \in inflight : stream.paused /\ k = counter - 1
    /\ \A e \in 1..Len(events) : events[e].type = "data" => ~FoundOutstanding(e)

\* C21 witness: the promise of the second invocation is pending after that of
\* the first was fulfilled
C21_Witness ==
    /\ inflight = { 1 }
    /\ \E e \in 1..Len(events) : events[e].type = "fulfilled" /\ events[e].ordinal = 0

\* C22: process() invokes the callback once per chunk the stream delivers, in
\* the order of delivery, with the context as receiver and (chunk, ordinal
\* counted from 0, stream) as arguments; a stream that ends before any chunk
\* leaves the callback uninvoked and resolves the operation.
C22_OncePerChunk ==
    /\ Len(calls) = Cardinality({ e \in 1..Len(events) : events[e].type = "data" })
    /\ \A k \in 1..Len(calls) :
          calls[k] = [ this |-> "target", item |-> Chunks[k], index |-> k - 1, stream |-> "stream" ]
    /\ (events # << >> /\ events[1].type = "end") =>
          (calls = << >> /\ opStatus = "resolved" /\ opValue = "target")

\* C22 witness: the callback has been invoked for three chunks and the
\* operation has resolved
C22_Witness ==
    /\ Len(calls) = 3
    /\ opStatus = "resolved"

\* C23: an end of the stream that finds no callback result outstanding and the
\* operation unsettled resolves it with the context, the object every
\* invocation of the callback had as its receiver; process() resolves with
\* nothing else.
C23_EndResolves ==
    /\ \A k \in 1..Len(calls) : calls[k].this = "target"
    /\ \A e \in 1..Len(events) :
          (events[e].type = "end" /\ ~FoundOutstanding(e) /\ events[e].before = "pending") =>
              /\ events[e].after = "resolved"
              /\ opStatus = "resolved" /\ opValue = "target"
    /\ opStatus = "resolved" => (opValue = "target" /\ finished /\ target.family = "object")

\* C23 witness: the stream has ended right after the callback returned for the
\* second of two chunks, and the operation has resolved
C23_Witness ==
    /\ opStatus = "resolved"
    /\ Len(events) = 3
    /\ events[2].type = "data" /\ events[2].did = "return"
    /\ events[3].type = "end" /\ ~FoundOutstanding(3)
    /\ Field(target, "chunks") = << Chunks[1], Chunks[2] >>

\* C24: an end or error signal that arrives while a callback result is
\* outstanding leaves the operation unsettled, and so it stays until that
\* result has settled and its continuation runs; the continuation then settles
\* the operation, a fulfilment after a deferred end resolving it with the context.
C24_DeferredSignals ==
    \A e \in 1..Len(events) :
        DeferredSignal(e) =>
            /\ events[e].after = "pending"
            /\ (~\E f \in 1..Len(events) : SettlesAfter(e, f)) =>
                  (opStatus = "pending" /\ Outstanding)
            /\ \A f \in 1..Len(events) :
                  SettlesAfter(e, f) =>
                      /\ events[f].before = "pending"
                      /\ events[f].after # "pending"
                      /\ (events[e].type = "end" /\ events[f].type = "fulfilled") =>
                            (events[f].after = "resolved" /\ opStatus = "resolved"
                                /\ opValue = "target")

\* C24 witness: the stream has ended while the promise of the callback was
\* pending, and the operation has resolved when that promise was fulfilled
C24_Witness ==
    /\ opStatus = "resolved"
    /\ Len(events) = 3
    /\ events[1].type = "data" /\ events[1].did = "promise"
    /\ events[2].type = "end" /\ FoundOutstanding(2) /\ events[2].after = "pending"
    /\ events[3].type = "fulfilled" /\ events[3].after = "resolved"

\* C25 as stated: an error the stream signals while the operation is unsettled
\* makes it fail with that error, at once when no callback result is
\* outstanding and else when the outstanding result is fulfilled, and the
\* operation never resolves afterwards, whatever the stream signals next.
C25_AsStated ==
    \A e \in 1..Len(events) :
        (events[e].type = "error" /\ events[e].before = "pending") =>
            /\ opStatus # "resolved"
            /\ ~FoundOutstanding(e) => (events[e].after = "rejected" /\ opValue = StreamError)
            /\ \A f \in 1..Len(events) :
                  (FoundOutstanding(e) /\ SettlesAfter(e, f) /\ events[f].type = "fulfilled") =>
                      (events[f].after = "rejected" /\ opValue = StreamError)

\* C26: when the callback throws or its promise is rejected, the stream is
\* paused then and in every later state, and the operation, unless it was
\* settled before, has failed with what the callback threw or rejected with.
C26_CallbackFailure ==
    \A e \in 1..Len(events) :
        CallbackFailure(e) =>
            /\ stream.paused
            /\ events[e].before = "pending" =>
                  /\ events[e].after = "rejected"
                  /\ opStatus = "rejected"
                  /\ opValue = CbErrors[events[e].ordinal + 1]

\* C26 witness: the promise of the second invocation has been rejected, and the
\* stream has signalled its end afterwards
C26_Witness ==
    /\ Len(events) = 4
    /\ events[3].type = "rejected" /\ events[3].ordinal = 1 /\ events[3].before = "pending"
    /\ events[4].type = "end"
    /\ opStatus = "rejected" /\ opValue = CbErrors[2]
    /\ stream.paused

\* C27 as stated: in every state in which process() has failed, the stream is
\* paused.
C27_AsStated == opStatus = "rejected" => stream.paused

\* C28: in the state in which process() has just failed with the error of the
\* stream, the context holds exactly the chunks the callback has completed its
\* work for, in the order of delivery.
C28_ContextAtSourceFailure ==
    FailedOnStreamError =>
        /\ ContextChunks = CompletedChunks
        /\ \A k \in 1..Len(ContextChunks) : ContextChunks[k] = Chunks[k]
        /\ Len(target.entries) <= 1

\* C28 witness: the stream has failed after two of four chunks were processed,
\* the second of them asynchronously with the error deferred
C28_Witness ==
    /\ FailedOnStreamError
    /\ events[Len(events)].type = "fulfilled"
    /\ ContextChunks = << Chunks[1], Chunks[2] >>
    /\ Len(stream.chunks) = 2

\* C29 as stated: process() without a callback resolves with a context whose
\* only field `collected` is the array of the delivered chunks, for every
\* number of chunks.
C29_AsStated ==
    (fn = "defaultProcessor" /\ opStatus = "resolved") =>
        target.entries = << [ key |-> "collected", val |-> DeliveredChunks ] >>

\* C29: process() without a callback, on the end of a stream that has not
\* failed before, resolves with the context; its only field `collected` is the
\* array of the delivered chunks in the order of delivery when there was at
\* least one chunk, and it has no field at all when there was none.
C29_DefaultProcessor ==
    fn = "defaultProcessor" =>
        /\ \A e \in 1..Len(events) :
              (events[e].type = "end" /\ events[e].before = "pending") =>
                  (opStatus = "resolved" /\ opValue = "target")
        /\ opStatus = "resolved" =>
              /\ stream.chunks = << >>
              /\ \A k \in 1..Len(calls) : calls[k].item = Chunks[k]
              /\ target.entries = IF calls = << >> THEN << >>
                                  ELSE << [ key |-> "collected", val |-> DeliveredChunks ] >>

\* C29 witness: the default processor has collected three chunks and the
\* operation has resolved
C29_Witness ==
    /\ fn = "defaultProcessor"
    /\ opStatus = "resolved"
    /\ Field(target, "collected") = << Chunks[1], Chunks[2], Chunks[3] >>

----------------------------------------------------------------------------
(* Properties of the container adapter *)

\* C30: called with a value that is no container, each(), some(), every(),
\* filter(), map(), multiMap(), find() and indexOf() throw a TypeError at the
\* call, the one of prepareIteration() for a value that is not null or
\* undefined; no promise is returned, the callback is never invoked and no
\* work is started.
C30_UnsupportedContainer ==
    (items.shape \in NoContainers /\ call.op # "process" /\ opStatus # "idle") =>
        /\ opStatus = "thrown"
        /\ opValue \in TypeErrors
        /\ items.shape \notin { "null", "undefined" } => opValue = NonIterable
        /\ calls = << >>
        /\ unit = << >> /\ tick = << >>
        /\ result = NoCollector

\* C30 witness: find() has thrown on a number
C30_Witness ==
    /\ call.op = "find"
    /\ items.shape = "number"
    /\ opStatus = "thrown"
    /\ opValue = NonIterable

----------------------------------------------------------------------------
(* Further properties of the walks *)

\* the operation has stopped early: each() and some() resolve an early stop
\* with true, every() turns it into false
StoppedEarly ==
    /\ call.op \in EachFamily
    /\ opStatus = "resolved"
    /\ opValue = IF call.op = "every" THEN "false" ELSE "true"

\* the place of the element the walk of each() has dealt with last
LastDone == CHOOSE i \in 1..Size : unit[i].st = "done" /\ \A j \in (i + 1)..Size : unit[j].st # "done"

\* the positions in the order the walk visits them
TraversalOrder ==
    IF Backward THEN Reverse([ i \in 1..Size |-> i - 1 ]) ELSE [ i \in 1..Size |-> i - 1 ]

\* C32 as stated: a callback result of null or undefined never stops each(),
\* some() or every(), the walk going on with the next element, and every()
\* only stops on a result that is falsy without being null or undefined.
C32_AsStated ==
    /\ call.op \in EachFamily =>
          \A i \in 1..Size :
              (unit[i].st = "done" /\ ~NotNullish(unit[i].val)) =>
                  /\ ~(StoppedEarly /\ LastDone = i)
                  /\ \/ tick # << >> /\ tick[1].current = i
                     \/ i < Size /\ unit[i + 1].st # "none"
                     \/ i = Size /\ (opStatus = "resolved" \/ (Chained /\ inner.status = "resolved"))
    /\ (call.op = "every" /\ StoppedEarly) =>
          (~Boolean(unit[LastDone].val) /\ NotNullish(unit[LastDone].val))

\* C33: find() and indexOf() invoke the callback along the traversal order,
\* once per position and without a gap, and not at all after the invocation
\* for which it was satisfied: with a match at position p a forward search has
\* visited exactly 0..p and a backward search exactly n-1 down to p.
C33_NothingBeyondMatch ==
    (call.op \in { "indexOf", "find" } /\ items.shape \in Shapes) =>
        /\ Len(calls) <= Size
        /\ \A k \in 1..Len(calls) : calls[k].pos = TraversalOrder[k]
        /\ \A i \in 1..Size :
              ReturnedTruthy(i) =>
                  /\ calls[Len(calls)].pos = i - 1
                  /\ Len(calls) = IF Backward THEN Size - i + 1 ELSE i
                  /\ tick = << >>

\* C33 witness: a backward indexOf() has found the second of three elements
\* after two invocations
C33_Witness ==
    /\ call.op = "indexOf" /\ Backward /\ Size = 3
    /\ ReturnedTruthy(2)
    /\ Len(calls) = 2 /\ calls[1].pos = 2 /\ calls[2].pos = 1
    /\ opStatus = "resolved" /\ opValue = items.entries[2].key

\* the continuation of the unit of the i-th element runs in this step
ContinuationRuns(i) == unit[i].st = "fulfilled" /\ unit'[i].st = "done"

\* the unit of the j-th element is started in this step
StepStarts(j) == unit[j].st = "none" /\ unit'[j].st # "none"

\* C34: in each(), some(), every(), filter(), map(), find() and indexOf() the
\* continuation of a unit of work never runs the step of another element: it
\* invokes no callback and starts no unit, it either settles the operation or
\* hands the next step to process.nextTick(); after the call a unit is only
\* started by such a scheduled step, of which there is at most one, waiting
\* while no unit is under way.
C34_YieldsBetweenSteps ==
    /\ [](call.op \in Sequential =>
            (tick # << >> => (Len(tick) = 1 /\ \A i \in 1..Size : ~Active(i))))
    /\ [][call.op \in Sequential =>
            \A i \in 1..Size :
                /\ ContinuationRuns(i) =>
                      /\ calls' = calls
                      /\ \A j \in 1..Size : j # i => unit'[j] = unit[j]
                      /\ IF WalkPending'
                         THEN tick = << >> /\ Len(tick') = 1
                                 /\ tick'[1].current \in { i, i - 2 }
                         ELSE tick' = tick
                /\ (StepStarts(i) /\ opStatus # "idle") =>
                      (tick # << >> /\ tick' = Tail(tick) /\ tick[1].current = i - 1)
       ]_vars

\* C34 witness: the step for the second of three elements is waiting in
\* process.nextTick() after the continuation of the first has run, and the
\* callback has been invoked once
C34_Witness ==
    /\ call.op = "each" /\ Size = 3
    /\ unit[1].st = "done" /\ unit[2].st = "none"
    /\ tick # << >> /\ tick[1].current = 1
    /\ Len(calls) = 1
    /\ opStatus = "pending"

\* C36: no step of each(), some(), every(), filter(), map(), multiMap(), find()
\* or indexOf() changes the source container, whether the operation succeeds,
\* stops early or fails; filter(), map() and multiMap() resolve with a
\* collection allocated by the call, the collector of prepareIteration() or the
\* array of Promise.all(), and only each() hands back the source itself.
C36_SourceUntouched ==
    /\ [][items' = items]_vars
    /\ [](opStatus = "resolved" =>
            /\ call.op \in { "filter", "map" } =>
                  (opValue = "collector" /\ result.family # "none")
            /\ call.op = "multiMap" =>
                  (opValue = (IF result.family = "array" THEN "mappedValues" ELSE "collector")
                      /\ result.family # "none")
            /\ opValue = "items" => call.op = "each")

\* C36 witness: filter() has resolved with a new array holding the second of
\* three elements of an array that is as it was
C36_Witness ==
    /\ call.op = "filter"
    /\ items = MakeItems("array", << "plain", "plain", "plain" >>)
    /\ opStatus = "resolved" /\ opValue = "collector"
    /\ result.family = "array" /\ result.slots = << ElemValues[2] >>

\* `value` is among what the collector holds
InResult(value) ==
    \/ \E k \in 1..Len(result.slots) : result.slots[k] = value
    \/ \E k \in 1..Len(result.entries) : result.entries[k].val = value

\* C40: when the element find() has found is a promise, find() resolves with
\* the value that promise is fulfilled with, which is the value the callback
\* was invoked with for it, and not with the promise; filter() puts the promise
\* itself into its result, not its value.
C40_FindAdopts ==
    \A i \in 1..Size :
        (ElementIsPromise(i) /\ ReturnedTruthy(i) /\ opStatus = "resolved") =>
            LET handle == items.entries[i].item
            IN  /\ call.op = "find" =>
                      /\ opValue = promises[handle].value
                      /\ opValue # handle
                      /\ \E k \in 1..Len(calls) :
                            calls[k].pos = i - 1 /\ calls[k].value = opValue
                /\ call.op = "filter" =>
                      (InResult(handle) /\ ~InResult(promises[handle].value))

\* C40 witness: find() has found the first of two elements, a promise, and has
\* resolved with its value
C40_Witness ==
    /\ call.op = "find" /\ ~Backward /\ Size = 2
    /\ ElementIsPromise(1) /\ ReturnedTruthy(1)
    /\ promises[items.entries[1].item].state = "fulfilled"
    /\ opStatus = "resolved" /\ opValue = ElemValues[1]

\* C39: when every promise among the elements and every promise of the
\* callback settles, each(), some(), every(), filter(), map(), multiMap(),
\* find() and indexOf() on a finite container eventually resolve or reject, and
\* the callback is never invoked more than once for an element.
C39_Settles ==
    /\ <>(opStatus \in { "resolved", "rejected" })
    /\ [](\A i \in 1..Size : Cardinality({ k \in 1..Len(calls) : calls[k].pos = i - 1 }) <= 1)

\* C39 witness: map() has resolved after one invocation for each of two
\* elements, one a promise and one for which the callback returned a promise
C39_Witness ==
    /\ call.op = "map" /\ Size = 2
    /\ ElementIsPromise(1) /\ ~ElementIsPromise(2)
    /\ Len(calls) = 2
    /\ opStatus = "resolved"

----------------------------------------------------------------------------
(* Further properties of process() *)

\* C35 as stated: once process() has resolved or failed, the callback is not
\* invoked again and no work of the callback on the context completes.
C35_AsStated ==
    \A e \in 1..Len(events) :
        events[e].type \in { "data", "fulfilled" } => events[e].before = "pending"

\* C37: while process() is unsettled, the stream is paused if and only if a
\* callback result is outstanding: from the callback returning a promise until
\* the continuation of that promise, which resumes the stream, has run.
C37_PausedIffOutstanding ==
    opStatus = "pending" => (stream.paused <=> Outstanding)

\* C37 witness: the stream is flowing again after the promise of the first
\* invocation was fulfilled, with a chunk still to come
C37_Witness ==
    /\ opStatus = "pending"
    /\ Len(events) = 2
    /\ events[1].type = "data" /\ events[1].did = "promise"
    /\ events[2].type = "fulfilled" /\ events[2].paused
    /\ ~stream.paused /\ ~Outstanding
    /\ stream.chunks # << >>

\* C38: when the stream delivers its chunks and signals its end or an error
\* and every promise of the callback settles, process() eventually resolves or
\* rejects, whatever the order of the signals and of the completions: it is
\* settled as soon as the end or an error has been signalled and no callback
\* result is outstanding.
C38_ProcessSettles ==
    /\ <>(opStatus \in { "resolved", "rejected" })
    /\ []((opStatus # "idle" /\ (stream.ended \/ stream.errored) /\ ~Outstanding) =>
            opStatus \in { "resolved", "rejected" })

\* C38 witness: process() has resolved on a deferred end after an error-free
\* run over two chunks, the second processed asynchronously
C38_Witness ==
    /\ opStatus = "resolved"
    /\ Len(calls) = 2
    /\ Len(events) = 4
    /\ events[2].type = "data" /\ events[2].did = "promise"
    /\ events[3].type = "end" /\ events[3].after = "pending"
    /\ events[4].type = "fulfilled"

----------------------------------------------------------------------------
(* Properties of promisify() *)

\* the e-th entry of the log is an invocation of the callback, the first one
FirstCallback(e) ==
    /\ events[e].type = "callback"
    /\ \A d \in 1..(e - 1) : events[d].type # "callback"

\* C31: the function promisify() returns invokes the wrapped function once,
\* with the arguments it was given followed by one callback; the first
\* invocation of that callback, on a promise not settled before, rejects it
\* with the first argument when that is truthy and resolves it with the second
\* argument otherwise, and no later invocation changes the outcome.
C31_Promisify ==
    (call.op = "promisify" /\ opStatus # "idle") =>
        /\ Len(calls) = 1
        /\ Len(calls[1].args) = Len(call.args) + 1
        /\ \A k \in 1..Len(call.args) : calls[1].args[k] = call.args[k]
        /\ calls[1].args[Len(call.args) + 1] = Synthesized
        /\ \A e \in 1..Len(events) :
              /\ (FirstCallback(e) /\ events[e].before = "pending") =>
                    IF events[e].error \in { "err" }
                    THEN opStatus = "rejected" /\ opValue = events[e].error
                    ELSE opStatus = "resolved" /\ opValue = events[e].result
              /\ (events[e].type = "callback" /\ ~FirstCallback(e)) =>
                    (events[e].before # "pending" /\ events[e].after = events[e].before)
        /\ (opStatus = "pending") => events = << >>

\* C31 witness: the callback was invoked with no error and a result, and then
\* once more with an error; the promise is resolved with the result
C31_Witness ==
    /\ call.op = "promisify" /\ Len(call.args) = 2
    /\ Len(events) = 2
    /\ events[1].type = "callback" /\ events[1].error = "null" /\ events[1].result = "r"
    /\ events[2].type = "callback" /\ events[2].error = "err"
    /\ opStatus = "resolved" /\ opValue = "r"

====
